---- MODULE Spec2Model ----
(***************************************************************************)
(* A model of endstone_inventory_manager/db_util.py: the SQLite-backed     *)
(* store of player inventories and ender chests (DatabaseManager and       *)
(* InventoryDB), the snapshot encoding of save_inventory/save_enderchest,  *)
(* the decoding of get_inventory/get_enderchest, and the threads that call *)
(* them through one shared connection, one shared cursor and one lock.     *)
(***************************************************************************)
EXTENDS Integers, Sequences, FiniteSets, TLC

\* ------------------------------------------------------------------ bounds
\* player.inventory.size of the live handles (36 in the game).
InvSize == 2
\* player.ender_chest.size of the live handles (27 in the game).
EnderSize == 1
\* The largest join/leave timestamp the callers pass.
MaxTime == 1
\* The number of states the live handle goes through while saves run.
MaxVersion == 3
\* The largest amount one slot of a live handle holds (64 in the game).
MaxStack == 3
\* How far beyond 0..35 the slot indices passed to _map_slot_to_chest go.
SlotMargin == 4

\* ------------------------------------------------- Python and SQL values
\* Python's None and SQL's NULL are the empty tuple; any other value v of an
\* optional attribute or a nullable column is the one-element tuple <<v>>.
Null == <<>>
Some(v) == <<v>>
Val(o) == o[1]

\* A Python dict is its sequence of items (insertion order), a list its
\* sequence of elements; the tag keeps {} and [] apart.
Dict(pairs) == [t |-> "dict", d |-> pairs, l |-> <<>>, n |-> 0]
List(elems) == [t |-> "list", d |-> <<>>, l |-> elems, n |-> 0]
IntVal(n) == [t |-> "int", d |-> <<>>, l |-> <<>>, n |-> n]
NoneVal == [t |-> "none", d |-> <<>>, l |-> <<>>, n |-> 0]

\* ------------------------------------------------------------ JSON text
\* A text is the sequence of its JSON tokens: punctuation, quoted strings,
\* numbers in decimal, and bare words (null, or garbage).
P(c) == [k |-> "punct", v |-> c]
S(s) == [k |-> "string", v |-> s]
W(w) == [k |-> "word", v |-> w]
Digits == <<"0", "1", "2", "3", "4", "5", "6", "7", "8", "9">>
N(n) == [k |-> "number", v |-> Digits[n + 1]]
IsNumber(tok) == tok.k = "number"
NumberOf(tok) == CHOOSE n \in 0..9 : Digits[n + 1] = tok.v

RECURSIVE DumpMembers(_)
DumpMembers(pairs) ==
    IF pairs = <<>> THEN <<>>
    ELSE <<S(pairs[1].k), P(":"), N(pairs[1].v)>>
         \o (IF Len(pairs) = 1 THEN <<>> ELSE <<P(",")>>)
         \o DumpMembers(Tail(pairs))

RECURSIVE DumpElements(_)
DumpElements(elems) ==
    IF elems = <<>> THEN <<>>
    ELSE <<S(elems[1])>>
         \o (IF Len(elems) = 1 THEN <<>> ELSE <<P(",")>>)
         \o DumpElements(Tail(elems))

\* json.dumps of the values save_* hands it: a dict of name -> level, a
\* list of strings, None, or an int.
json_dumps(value) ==
    CASE value.t = "dict" -> <<P("{")>> \o DumpMembers(value.d) \o <<P("}")>>
      [] value.t = "list" -> <<P("[")>> \o DumpElements(value.l) \o <<P("]")>>
      [] value.t = "int" -> <<N(value.n)>>
      [] OTHER -> <<W("null")>>

\* The members of an object, parsed: <<TRUE, pairs>> or <<FALSE, <<>>>>.
RECURSIVE LoadMembers(_)
LoadMembers(toks) ==
    IF Len(toks) < 3 \/ toks[1].k # "string" \/ toks[2] # P(":") \/ ~IsNumber(toks[3])
    THEN <<FALSE, <<>>>>
    ELSE LET pair == [k |-> toks[1].v, v |-> NumberOf(toks[3])]
         IN  IF Len(toks) = 3 THEN <<TRUE, <<pair>>>>
             ELSE IF toks[4] # P(",") THEN <<FALSE, <<>>>>
             ELSE LET rest == LoadMembers(SubSeq(toks, 5, Len(toks)))
                  IN  IF rest[1] THEN <<TRUE, <<pair>> \o rest[2]>>
                      ELSE <<FALSE, <<>>>>

\* The elements of an array of strings, parsed.
RECURSIVE LoadElements(_)
LoadElements(toks) ==
    IF Len(toks) < 1 \/ toks[1].k # "string" THEN <<FALSE, <<>>>>
    ELSE IF Len(toks) = 1 THEN <<TRUE, <<toks[1].v>>>>
    ELSE IF toks[2] # P(",") THEN <<FALSE, <<>>>>
    ELSE LET rest == LoadElements(SubSeq(toks, 3, Len(toks)))
         IN  IF rest[1] THEN <<TRUE, <<toks[1].v>> \o rest[2]>>
             ELSE <<FALSE, <<>>>>

\* json.loads: [ok |-> TRUE, value |-> v], or ok = FALSE where it raises.
json_loads(text) ==
    LET raises == [ok |-> FALSE, value |-> NoneVal]
        n == Len(text)
    IN  IF n = 0 THEN raises
        ELSE IF n = 1
        THEN IF text[1] = W("null") THEN [ok |-> TRUE, value |-> NoneVal]
             ELSE IF IsNumber(text[1])
             THEN [ok |-> TRUE, value |-> IntVal(NumberOf(text[1]))]
             ELSE raises
        ELSE IF text[1] = P("{") /\ text[n] = P("}")
        THEN IF n = 2 THEN [ok |-> TRUE, value |-> Dict(<<>>)]
             ELSE LET m == LoadMembers(SubSeq(text, 2, n - 1))
                  IN  IF m[1] THEN [ok |-> TRUE, value |-> Dict(m[2])] ELSE raises
        ELSE IF text[1] = P("[") /\ text[n] = P("]")
        THEN IF n = 2 THEN [ok |-> TRUE, value |-> List(<<>>)]
             ELSE LET e == LoadElements(SubSeq(text, 2, n - 1))
                  IN  IF e[1] THEN [ok |-> TRUE, value |-> List(e[2])] ELSE raises
        ELSE raises

\* ------------------------------------------------ the live player handle
\* An ItemStack: type, amount, item_meta (or None) and data (or None). An
\* ItemMeta: display_name (or None), enchants (name -> level), lore (or
\* None), is_unbreakable, damage.
Meta(display_name, enchants, lore, is_unbreakable, damage) ==
    [display_name |-> display_name, enchants |-> enchants, lore |-> lore,
     is_unbreakable |-> is_unbreakable, damage |-> damage]
Item(type, amount, item_meta, data) ==
    [type |-> type, amount |-> amount, item_meta |-> item_meta, data |-> data]

\* The offhand entry under the name of the attribute it is read from.
EquipmentAttributeNames ==
    <<"helmet", "chestplate", "leggings", "boots", "item_in_off_hand">>

\* The slot_type of each entry of armor_items.
EquipmentNames == <<"helmet", "chestplate", "leggings", "boots", "offhand">>

\* A Player: xuid, name, inventory (numbered slots, then the five equipment
\* attributes in the order of armor_items) and ender_chest (numbered slots).
\* A slot holds None or an ItemStack.
Player(xuid, name, slots, equipment, ender) ==
    [xuid |-> xuid, name |-> name,
     inventory |-> [slots |-> slots, equipment |-> equipment],
     ender_chest |-> [slots |-> ender]]

\* ------------------------------------------------------- encoding (save)
\* Only a missing item is skipped.
IsSkippedNoneOnly(item) == item = Null

\* `if not item or str(item.type) == "minecraft:air": continue`
IsSkipped(item) == item = Null \/ Val(item).type = "minecraft:air"

\* The eight item columns of a row: type, amount, damage, display_name,
\* enchants, lore, unbreakable, data.
ItemColumns(item) ==
    LET meta == item.item_meta
        has == meta # Null
    IN  [type |-> item.type,
         amount |-> Some(item.amount),
         damage |-> Some(IF has THEN Val(meta).damage ELSE 0),
         display_name |-> IF has THEN Val(meta).display_name ELSE Some(""),
         enchants |-> json_dumps(Dict(IF has THEN Val(meta).enchants ELSE <<>>)),
         lore |-> json_dumps(IF ~has THEN List(<<>>)
                             ELSE IF Val(meta).lore = Null THEN NoneVal
                             ELSE List(Val(Val(meta).lore))),
         unbreakable |-> Some(IF has /\ Val(meta).is_unbreakable THEN 1 ELSE 0),
         data |-> item.data]

\* One tuple of `values` in save_inventory.
InventoryRow(player, slot_type, slot, item) ==
    LET c == ItemColumns(item)
    IN  [xuid |-> player.xuid, name |-> player.name,
         slot_type |-> slot_type, slot |-> Some(slot),
         type |-> c.type, amount |-> c.amount, damage |-> c.damage,
         display_name |-> c.display_name, enchants |-> c.enchants,
         lore |-> c.lore, unbreakable |-> c.unbreakable, data |-> c.data]

\* One tuple of `values` in save_enderchest.
EnderRow(player, slot, item) ==
    LET c == ItemColumns(item)
    IN  [xuid |-> player.xuid, name |-> player.name, slot |-> Some(slot),
         type |-> c.type, amount |-> c.amount, damage |-> c.damage,
         display_name |-> c.display_name, enchants |-> c.enchants,
         lore |-> c.lore, unbreakable |-> c.unbreakable, data |-> c.data]

\* `for i in range(player.inventory.size)`, from slot i on.
RECURSIVE SlotValues(_, _)
SlotValues(player, i) ==
    LET slots == player.inventory.slots
    IN  IF i >= Len(slots) THEN <<>>
        ELSE (IF IsSkipped(slots[i + 1]) THEN <<>>
              ELSE <<InventoryRow(player, "slot", i, Val(slots[i + 1]))>>)
             \o SlotValues(player, i + 1)

RECURSIVE ArmorValues(_, _)
\* Equipment written as numbered slot 0.
ArmorAsSlots(player, k) ==
    LET equipment == player.inventory.equipment
    IN  IF k > Len(EquipmentNames) THEN <<>>
        ELSE (IF IsSkipped(equipment[k]) THEN <<>>
              ELSE <<InventoryRow(player, "slot", 0, Val(equipment[k]))>>)
             \o ArmorValues(player, k + 1)

\* `for slot_type, item in armor_items`, from the k-th entry on; the slot
\* column of an equipment row is 0.
ArmorValues(player, k) ==
    LET equipment == player.inventory.equipment
    IN  IF k > Len(EquipmentNames) THEN <<>>
        ELSE (IF IsSkipped(equipment[k]) THEN <<>>
              ELSE <<InventoryRow(player, EquipmentNames[k], 0, Val(equipment[k]))>>)
             \o ArmorValues(player, k + 1)

\* `values` of save_inventory when it reaches the lock.
InventoryValues(player) == SlotValues(player, 0) \o ArmorValues(player, 1)

\* `for i in range(player.ender_chest.size)`, from slot i on.
RECURSIVE EnderSlotValues(_, _)
EnderSlotValues(player, i) ==
    LET slots == player.ender_chest.slots
    IN  IF i >= Len(slots) THEN <<>>
        ELSE (IF IsSkipped(slots[i + 1]) THEN <<>>
              ELSE <<EnderRow(player, i, Val(slots[i + 1]))>>)
             \o EnderSlotValues(player, i + 1)

\* `values` of save_enderchest when it reaches the lock.
EnderValues(player) == EnderSlotValues(player, 0)

\* ------------------------------------------------------- decoding (load)
\* A text json.loads rejects gives None.
ParseFieldNone(text, default) ==
    IF text # <<>> /\ text # <<W("null")>> /\ text # <<N(0)>>
    THEN LET r == json_loads(text) IN IF r.ok THEN r.value ELSE NoneVal
    ELSE default

\* `if row[8] and row[8] not in ("null", "0", ""):` try json.loads, and on
\* any exception, or when the test fails, keep the default.
ParseField(text, default) ==
    IF text # <<>> /\ text # <<W("null")>> /\ text # <<N(0)>>
    THEN LET r == json_loads(text) IN IF r.ok THEN r.value ELSE default
    ELSE default

\* The item columns, with the data column tested for truth.
DecodedColumnsTruthy(row) ==
    [type |-> IF row.type # "" THEN row.type ELSE "minecraft:air",
     amount |-> IF row.amount # Null THEN Val(row.amount) ELSE 1,
     damage |-> IF row.damage # Null THEN Val(row.damage) ELSE 0,
     display_name |-> IF row.display_name # Null THEN Val(row.display_name) ELSE "",
     enchants |-> ParseField(row.enchants, Dict(<<>>)),
     lore |-> ParseField(row.lore, List(<<>>)),
     unbreakable |-> IF row.unbreakable # Null THEN Val(row.unbreakable) # 0 ELSE FALSE,
     data |-> IF row.data = Some(0) THEN Null ELSE row.data]

\* The item columns, with a NULL data column read as 0.
DecodedColumnsDataZero(row) ==
    [type |-> IF row.type # "" THEN row.type ELSE "minecraft:air",
     amount |-> IF row.amount # Null THEN Val(row.amount) ELSE 1,
     damage |-> IF row.damage # Null THEN Val(row.damage) ELSE 0,
     display_name |-> IF row.display_name # Null THEN Val(row.display_name) ELSE "",
     enchants |-> ParseField(row.enchants, Dict(<<>>)),
     lore |-> ParseField(row.lore, List(<<>>)),
     unbreakable |-> IF row.unbreakable # Null THEN Val(row.unbreakable) # 0 ELSE FALSE,
     data |-> IF row.data = Null THEN Some(0) ELSE row.data]

\* The item columns of the dict get_inventory and get_enderchest append.
DecodedColumns(row) ==
    [type |-> IF row.type # "" THEN row.type ELSE "minecraft:air",
     amount |-> IF row.amount # Null THEN Val(row.amount) ELSE 1,
     damage |-> IF row.damage # Null THEN Val(row.damage) ELSE 0,
     display_name |-> IF row.display_name # Null THEN Val(row.display_name) ELSE "",
     enchants |-> ParseField(row.enchants, Dict(<<>>)),
     lore |-> ParseField(row.lore, List(<<>>)),
     unbreakable |-> IF row.unbreakable # Null THEN Val(row.unbreakable) # 0 ELSE FALSE,
     data |-> row.data]

\* The dict get_inventory appends for one row of inventories.
InventoryItem(row) ==
    LET c == DecodedColumns(row)
    IN  [xuid |-> row.xuid, name |-> row.name, slot_type |-> row.slot_type,
         slot |-> IF row.slot # Null THEN Val(row.slot) ELSE 0,
         type |-> c.type, amount |-> c.amount, damage |-> c.damage,
         display_name |-> c.display_name, enchants |-> c.enchants,
         lore |-> c.lore, unbreakable |-> c.unbreakable, data |-> c.data]

\* The dict get_enderchest appends for one row of ender_chests.
EnderItem(row) ==
    LET c == DecodedColumns(row)
    IN  [xuid |-> row.xuid, name |-> row.name,
         slot |-> IF row.slot # Null THEN Val(row.slot) ELSE 0,
         type |-> c.type, amount |-> c.amount, damage |-> c.damage,
         display_name |-> c.display_name, enchants |-> c.enchants,
         lore |-> c.lore, unbreakable |-> c.unbreakable, data |-> c.data]

\* ---------------------------------------------------------------- store
\* The three tables of create_tables, each the sequence of its rows in
\* rowid order (AUTOINCREMENT ids only grow, so a new row is appended).
\* The tables and indices create_tables asks for, in the order of its
\* statements.
Schema ==
    <<"users", "inventories", "ender_chests",
      "idx_inventories_xuid", "idx_ender_chests_xuid", "idx_users_name">>
FullSchema == {Schema[k] : k \in DOMAIN Schema}

\* The store create_tables leaves on a new file: `schema` holds the names
\* of the tables and indices that exist.
EmptyDb ==
    [users |-> <<>>, inventories |-> <<>>, ender_chests |-> <<>>,
     schema |-> FullSchema]

\* `CREATE TABLE` and `CREATE INDEX` run as `DROP ... ; CREATE ...`.
DropAndCreate(db, object) ==
    IF object \in {"users", "inventories", "ender_chests"}
    THEN [db EXCEPT !.schema = @ \cup {object}, ![object] = <<>>]
    ELSE [db EXCEPT !.schema = @ \cup {object}]

\* `CREATE TABLE IF NOT EXISTS` and `CREATE INDEX IF NOT EXISTS`: an object
\* that exists is left as it is, rows included.
CreateIfNotExists(db, object) ==
    [db EXCEPT !.schema = @ \cup {object}]

\* `SELECT ... FROM <table> WHERE xuid = ?`
SelectWhereXuid(table, xuid) == SelectSeq(table, LAMBDA r : r.xuid = xuid)

\* The DELETE left out: the old rows stay.
DeleteNothing(table, xuid) == table

\* `DELETE FROM <table> WHERE xuid = ?`
DeleteWhereXuid(table, xuid) == SelectSeq(table, LAMBDA r : r.xuid # xuid)

\* An upsert that updates name and last_join of an existing row in place.
UpsertUserInPlace(users, xuid, name, join_time) ==
    IF \E i \in DOMAIN users : users[i].xuid = xuid
    THEN [i \in DOMAIN users |->
             IF users[i].xuid = xuid
             THEN [users[i] EXCEPT !.name = name, !.last_join = join_time]
             ELSE users[i]]
    ELSE users \o <<[xuid |-> xuid, name |-> name, last_join |-> join_time,
                     last_leave |-> 0]>>

\* An INSERT into a table without the primary key.
InsertUser(users, xuid, name, join_time) ==
    users \o <<[xuid |-> xuid, name |-> name, last_join |-> join_time, last_leave |-> 0]>>

\* `INSERT OR REPLACE INTO users (xuid, name, last_join) VALUES (?, ?, ?)`:
\* xuid is the primary key, so a row of the same xuid is removed, and the
\* new row takes the default last_leave = 0.
InsertOrReplaceUser(users, xuid, name, join_time) ==
    DeleteWhereXuid(users, xuid)
    \o <<[xuid |-> xuid, name |-> name, last_join |-> join_time, last_leave |-> 0]>>

\* An UPDATE that inserts the row when there is none.
UpsertLeave(users, xuid, leave_time) ==
    IF \E i \in DOMAIN users : users[i].xuid = xuid
    THEN [i \in 1..Len(users) |->
             IF users[i].xuid = xuid THEN [users[i] EXCEPT !.last_leave = leave_time]
             ELSE users[i]]
    ELSE users \o <<[xuid |-> xuid, name |-> "", last_join |-> 0,
                     last_leave |-> leave_time]>>

\* The UPDATE without its WHERE clause.
UpdateLeaveOfAll(users, xuid, leave_time) ==
    [i \in 1..Len(users) |-> [users[i] EXCEPT !.last_leave = leave_time]]

\* `UPDATE users SET last_leave = ? WHERE xuid = ?`
UpdateLeave(users, xuid, leave_time) ==
    [i \in 1..Len(users) |->
        IF users[i].xuid = xuid THEN [users[i] EXCEPT !.last_leave = leave_time]
        ELSE users[i]]

\* ------------------------------------------------------------- threads
Threads == {"t1", "t2"}
NoThread == "none"
\* The identifiers callers ask for.
Xuids == {"x1", "x2"}
Times == 1..MaxTime

\* The statements callers hand to DatabaseManager.execute.
CreateIndex == "CREATE INDEX IF NOT EXISTS idx_users_name ON users(name)"
SelectUsers == "SELECT xuid, name, last_join, last_leave FROM users"
Queries == {CreateIndex, SelectUsers}
\* `query.strip().upper().startswith("SELECT")`
StartsWithSelect(query) == query = SelectUsers

VARIABLES
    players,  \* the live Player handles the host passes to the calls
    disk,     \* the committed store: what any new connection reads
    conn,     \* self.conn: its view of the store and whether a transaction is open
    cursor,   \* self.cursor: the rows its last statement left to fetch
    lock,     \* DatabaseManager._lock: the thread holding it, or NoThread
    pc,       \* per thread: the operation it is in and the place in it
    frame,    \* per thread: the locals of that operation
    caller    \* per thread: the calls its caller makes, and how far it has got

vars == <<players, disk, conn, cursor, lock, pc, frame, caller>>

Idle == [op |-> "idle", at |-> ""]
At(op, at) == [op |-> op, at |-> at]
\* `deleted` is the rowcount of the DELETE, `done` the tuples executemany
\* has inserted so far, `printed` the lines the call has printed.
NoFrame ==
    [player |-> Null, xuid |-> "", time |-> 0, query |-> "", name |-> "",
     values |-> <<>>, deleted |-> 0, done |-> 0, items |-> <<>>, printed |-> <<>>,
     statement |-> 0, title |-> "", slot |-> 0, item |-> Null, sent |-> <<>>,
     chest |-> <<>>, idx |-> Null, result |-> Null]

TableOf(op) ==
    IF op \in {"save_inventory", "get_inventory"} THEN "inventories" ELSE "ender_chests"

\* A thread is inside cursor.executemany (between two of its rows): the
\* cursor refuses any other use ("Recursive use of cursors not allowed").
CursorLocked ==
    \E t \in Threads : pc[t].at = "executemany" /\ frame[t].done >= 1

\* A caller either calls any operation at any time (next = 0), or calls the
\* operations of `program` one after the other and stops at the first
\* exception.
FreeCaller == [program |-> <<>>, next |-> 0, raised |-> FALSE]
Scripted(program) == [program |-> program, next |-> 1, raised |-> FALSE]

\* Thread t may call op now.
Ready(t, op) ==
    /\ pc[t] = Idle
    /\ IF caller[t].next = 0 THEN TRUE
       ELSE /\ ~caller[t].raised
            /\ caller[t].next <= Len(caller[t].program)
            /\ caller[t].program[caller[t].next] = op

Goto(t, op, at) == pc' = [pc EXCEPT ![t] = At(op, at)]

\* The call ends, with its value or with an exception.
Ends(t, raised) ==
    /\ pc' = [pc EXCEPT ![t] = Idle]
    /\ frame' = [frame EXCEPT ![t] = NoFrame]
    /\ caller' = IF caller[t].next = 0 THEN caller
                 ELSE [caller EXCEPT ![t].next = @ + 1, ![t].raised = raised]
Return(t) == Ends(t, FALSE)
Raise(t) == Ends(t, TRUE)

\* ------------------------------------------------- connection primitives
\* The lock taken without waiting for its holder.
AcquireWithoutWaiting(t) == lock' = t

\* `with self._lock:` entered.
Acquire(t) == lock = NoThread /\ lock' = t
\* `with self._lock:` left, by falling off its end or by an exception.
Release(t) == lock' = NoThread

\* self.cursor.execute of an INSERT, UPDATE, DELETE or REPLACE that leaves
\* `db`: sqlite3 opens a transaction first if none is open, and the cursor
\* has no rows to fetch afterwards.
ExecuteDml(t, db) ==
    /\ conn' = [db |-> db, in_transaction |-> TRUE]
    /\ cursor' = <<>>

\* self.cursor.execute of a SELECT: the rows are read from the connection's
\* own view, uncommitted changes included.
ExecuteSelect(t, rows) ==
    /\ cursor' = rows
    /\ UNCHANGED conn

\* self.cursor.execute of a CREATE statement that leaves `db`: sqlite3 opens
\* no transaction for it, so it is committed at once unless a transaction
\* is already open.
ExecuteDdl(t, db) ==
    /\ cursor' = <<>>
    /\ IF conn.in_transaction
       THEN conn' = [db |-> db, in_transaction |-> TRUE] /\ UNCHANGED disk
       ELSE conn' = [db |-> db, in_transaction |-> FALSE] /\ disk' = db

\* self.conn.commit()
Commit ==
    /\ disk' = conn.db
    /\ conn' = [conn EXCEPT !.in_transaction = FALSE]

\* ------------------------------------- save_inventory / save_enderchest
\* The rows are built from the live handle before the lock is asked for.
SaveBuild(t, op) ==
    /\ Ready(t, op)
    /\ \E player \in players :
         frame' = [frame EXCEPT ![t] =
                     [NoFrame EXCEPT !.player = Some(player), !.xuid = player.xuid,
                        !.values = IF op = "save_inventory" THEN InventoryValues(player)
                                   ELSE EnderValues(player)]]
    /\ Goto(t, op, "lock")
    /\ UNCHANGED <<players, disk, conn, cursor, lock, caller>>

\* The save goes on without the lock.
SaveWithoutLock(t, op) ==
    /\ pc[t] = At(op, "lock")
    /\ Goto(t, op, "delete")
    /\ UNCHANGED <<players, disk, conn, cursor, lock, frame, caller>>

SaveAcquire(t, op) ==
    /\ pc[t] = At(op, "lock")
    /\ Acquire(t)
    /\ Goto(t, op, "delete")
    /\ UNCHANGED <<players, disk, conn, cursor, frame, caller>>

\* `DELETE FROM ... WHERE xuid = ?`, then `if values:`.
SaveDelete(t, op) ==
    /\ pc[t] = At(op, "delete")
    /\ ExecuteDml(t, [conn.db EXCEPT
                        ![TableOf(op)] = DeleteWhereXuid(@, frame[t].xuid)])
    /\ frame' = [frame EXCEPT ![t].deleted =
                    Len(SelectWhereXuid(conn.db[TableOf(op)], frame[t].xuid))]
    /\ Goto(t, op, IF frame[t].values # <<>> THEN "executemany" ELSE "commit")
    /\ UNCHANGED <<players, disk, lock, caller>>

\* executemany binds and steps the INSERT once per tuple of `values`.
SaveInsertRow(t, op) ==
    /\ pc[t] = At(op, "executemany")
    /\ LET k == frame[t].done + 1
       IN  /\ ExecuteDml(t, [conn.db EXCEPT
                               ![TableOf(op)] = Append(@, frame[t].values[k])])
           /\ frame' = [frame EXCEPT ![t].done = k]
           /\ Goto(t, op, IF k = Len(frame[t].values) THEN "commit" ELSE "executemany")
    /\ UNCHANGED <<players, disk, lock, caller>>

\* An INSERT of executemany raises (a constraint, a binding or a storage
\* error). SQLite undoes that one statement and leaves the transaction
\* open, or, for some storage errors, rolls the whole transaction back.
SaveInsertRaises(t, op) ==
    /\ pc[t] = At(op, "executemany")
    /\ \E rolled_back \in BOOLEAN :
         /\ conn' = IF rolled_back THEN [db |-> disk, in_transaction |-> FALSE]
                    ELSE conn
         /\ cursor' = <<>>
    /\ Goto(t, op, "raised")
    /\ UNCHANGED <<players, disk, lock, frame, caller>>

\* The call leaves the `with` block without committing.
WriteWithoutCommit(t, op) ==
    /\ pc[t] = At(op, "commit")
    /\ Goto(t, op, "exit")
    /\ UNCHANGED <<players, disk, conn, cursor, lock, frame, caller>>

\* `self.conn.commit()`
WriteCommit(t, op) ==
    /\ pc[t] = At(op, "commit")
    /\ Commit
    /\ Goto(t, op, "exit")
    /\ UNCHANGED <<players, cursor, lock, frame, caller>>

\* The end of the `with` block: the call returns.
WriteExit(t, op) ==
    /\ pc[t] = At(op, "exit")
    /\ Release(t)
    /\ Return(t)
    /\ UNCHANGED <<players, disk, conn, cursor>>

\* An exception leaves the call with the lock still held.
WriteRaisedHoldingLock(t, op) ==
    /\ pc[t] = At(op, "raised")
    /\ Raise(t)
    /\ UNCHANGED <<players, disk, conn, cursor, lock>>

\* An exception leaves the `with` block: nothing is rolled back.
WriteRaised(t, op) ==
    /\ pc[t] = At(op, "raised")
    /\ Release(t)
    /\ Raise(t)
    /\ UNCHANGED <<players, disk, conn, cursor>>

SaveOp(t, op) ==
    \/ SaveBuild(t, op)
    \/ SaveAcquire(t, op)
    \/ SaveDelete(t, op)
    \/ SaveInsertRow(t, op)
    \/ SaveInsertRaises(t, op)
    \/ WriteCommit(t, op)
    \/ WriteExit(t, op)
    \/ WriteRaised(t, op)

save_inventory(t) == SaveOp(t, "save_inventory")
save_enderchest(t) == SaveOp(t, "save_enderchest")

\* --------------------------------------- get_inventory / get_enderchest
\* A row of another statement's result has too few columns or a string
\* where the slot number is read: converting it raises inside the row's
\* try block, and the row is skipped.
IsRowOf(op, row) ==
    IF op = "get_inventory" THEN "slot_type" \in DOMAIN row
    ELSE "slot" \in DOMAIN row /\ "slot_type" \notin DOMAIN row

\* A value of an INTEGER column that is neither NULL nor a number: text the
\* column kept as text, on which int() raises ValueError.
Unconvertible == <<0, 0>>
IntColumns == {"slot", "amount", "damage", "data"}

\* `int(row[3])`, `int(row[5])`, `int(row[6])`, `int(row[11])` raise inside
\* the row's try block.
ConversionRaises(op, row) ==
    \/ ~IsRowOf(op, row)
    \/ \E column \in IntColumns : row[column] = Unconvertible

\* `print(f"[InventoryDB] Failed to load inventory row for {xuid}: {e}")`
FailedToLoad(op, xuid) ==
    [about |-> IF op = "get_inventory" THEN "inventory row" ELSE "ender chest row",
     xuid |-> xuid, e |-> "invalid literal for int()"]

\* The lines the row loop prints: one per row whose conversion raises, none
\* for enchants or lore text json.loads rejects.
RECURSIVE PrintedRows(_, _, _)
PrintedRows(op, xuid, rows) ==
    IF rows = <<>> THEN <<>>
    ELSE (IF ConversionRaises(op, rows[1]) THEN <<FailedToLoad(op, xuid)>> ELSE <<>>)
         \o PrintedRows(op, xuid, Tail(rows))

RECURSIVE DecodeRows(_, _)
\* The loop left at the first row whose conversion raises.
DecodeRowsUntilFailure(op, rows) ==
    IF rows = <<>> THEN <<>>
    ELSE IF ConversionRaises(op, rows[1]) THEN <<>>
    ELSE (IF op = "get_inventory" THEN <<InventoryItem(rows[1])>>
          ELSE <<EnderItem(rows[1])>>)
         \o DecodeRows(op, Tail(rows))

\* `for row in self.cursor.fetchall(): ... items.append({...})`
DecodeRows(op, rows) ==
    IF rows = <<>> THEN <<>>
    ELSE (IF ConversionRaises(op, rows[1]) THEN <<>>
          ELSE IF op = "get_inventory" THEN <<InventoryItem(rows[1])>>
          ELSE <<EnderItem(rows[1])>>)
         \o DecodeRows(op, Tail(rows))

\* `self.cursor.execute("SELECT ... WHERE xuid = ?")`: on the shared cursor
\* of the write connection, without the lock.
GetExecute(t, op) ==
    /\ Ready(t, op)
    /\ ~CursorLocked
    /\ \E xuid \in Xuids :
         /\ ExecuteSelect(t, SelectWhereXuid(conn.db[TableOf(op)], xuid))
         /\ frame' = [frame EXCEPT ![t] = [NoFrame EXCEPT !.xuid = xuid]]
    /\ Goto(t, op, "fetchall")
    /\ UNCHANGED <<players, disk, lock, caller>>

\* `self.cursor.fetchall()` returns what is left on the shared cursor,
\* whichever statement put it there, and the loop decodes it.
GetFetchall(t, op) ==
    /\ pc[t] = At(op, "fetchall")
    /\ ~CursorLocked
    /\ frame' = [frame EXCEPT ![t].items = DecodeRows(op, cursor),
                              ![t].printed = PrintedRows(op, frame[t].xuid, cursor)]
    /\ cursor' = <<>>
    /\ Goto(t, op, "return")
    /\ UNCHANGED <<players, disk, conn, lock, caller>>

\* The cursor is inside another thread's executemany: execute and fetchall
\* raise ProgrammingError.
GetRaises(t, op) ==
    /\ Ready(t, op) \/ pc[t] = At(op, "fetchall")
    /\ CursorLocked
    /\ frame' = [frame EXCEPT ![t] = NoFrame]
    /\ Goto(t, op, "raised")
    /\ UNCHANGED <<players, disk, conn, cursor, lock, caller>>

\* `return items`, or the exception reaches the caller.
GetReturn(t, op) ==
    /\ \/ pc[t] = At(op, "return") /\ Return(t)
       \/ pc[t] = At(op, "raised") /\ Raise(t)
    /\ UNCHANGED <<players, disk, conn, cursor, lock>>

GetOp(t, op) ==
    \/ GetExecute(t, op)
    \/ GetFetchall(t, op)
    \/ GetRaises(t, op)
    \/ GetReturn(t, op)

get_inventory(t) == GetOp(t, "get_inventory")
get_enderchest(t) == GetOp(t, "get_enderchest")

\* ------------------------------------ save_user / update_user_leave_time
save_user(t) ==
    \/ /\ Ready(t, "save_user")
       /\ Acquire(t)
       /\ \E player \in players, join_time \in Times :
            frame' = [frame EXCEPT ![t] =
                        [NoFrame EXCEPT !.player = Some(player), !.xuid = player.xuid,
                                        !.time = join_time]]
       /\ Goto(t, "save_user", "execute")
       /\ UNCHANGED <<players, disk, conn, cursor, caller>>
    \/ /\ pc[t] = At("save_user", "execute")
       /\ ExecuteDml(t, [conn.db EXCEPT !.users =
                           InsertOrReplaceUser(@, frame[t].xuid,
                                               Val(frame[t].player).name, frame[t].time)])
       /\ Goto(t, "save_user", "commit")
       /\ UNCHANGED <<players, disk, lock, frame, caller>>
    \/ WriteCommit(t, "save_user")
    \/ WriteExit(t, "save_user")

update_user_leave_time(t) ==
    \/ /\ Ready(t, "update_user_leave_time")
       /\ Acquire(t)
       /\ \E xuid \in Xuids, leave_time \in Times :
            frame' = [frame EXCEPT ![t] =
                        [NoFrame EXCEPT !.xuid = xuid, !.time = leave_time]]
       /\ Goto(t, "update_user_leave_time", "execute")
       /\ UNCHANGED <<players, disk, conn, cursor, caller>>
    \/ /\ pc[t] = At("update_user_leave_time", "execute")
       /\ ExecuteDml(t, [conn.db EXCEPT !.users =
                           UpdateLeave(@, frame[t].xuid, frame[t].time)])
       /\ Goto(t, "update_user_leave_time", "commit")
       /\ UNCHANGED <<players, disk, lock, frame, caller>>
    \/ WriteCommit(t, "update_user_leave_time")
    \/ WriteExit(t, "update_user_leave_time")

\* ------------------------------------- DatabaseManager.execute (write path)
execute(t) ==
    \/ /\ Ready(t, "execute")
       /\ Acquire(t)
       /\ \E query \in Queries :
            frame' = [frame EXCEPT ![t] = [NoFrame EXCEPT !.query = query]]
       /\ Goto(t, "execute", "execute")
       /\ UNCHANGED <<players, disk, conn, cursor, caller>>
    \/ /\ pc[t] = At("execute", "execute")
       /\ IF StartsWithSelect(frame[t].query)
          THEN ExecuteSelect(t, conn.db.users) /\ Goto(t, "execute", "exit")
          ELSE \* CREATE INDEX IF NOT EXISTS on the schema of create_tables
               /\ cursor' = <<>>
               /\ UNCHANGED conn
               /\ Goto(t, "execute", "commit")
       /\ UNCHANGED <<players, disk, lock, frame, caller>>
    \/ WriteCommit(t, "execute")
    \/ WriteExit(t, "execute")

\* ------------------------------- DatabaseManager.execute (readonly=True)
ReadOnlyCall(t) ==
    /\ Ready(t, "execute_readonly")
    /\ \E query \in Queries :
         frame' = [frame EXCEPT ![t] = [NoFrame EXCEPT !.query = query]]
    /\ Goto(t, "execute_readonly", "execute")
    /\ UNCHANGED <<players, disk, conn, cursor, lock, caller>>

\* The statement run on self.cursor, without the lock.
ReadOnlyOnWriteCursor(t) ==
    /\ pc[t] = At("execute_readonly", "execute")
    /\ IF StartsWithSelect(frame[t].query)
       THEN /\ cursor' = conn.db.users
            /\ frame' = [frame EXCEPT ![t].items = conn.db.users]
       ELSE /\ cursor' = <<>>
            /\ UNCHANGED frame
    /\ Goto(t, "execute_readonly", "return")
    /\ UNCHANGED <<players, disk, conn, lock, caller>>

\* `read_conn = sqlite3.connect(...)`, `cursor = read_conn.cursor()`,
\* `cursor.execute(query, params)`: the new connection reads the committed
\* store; `items` holds the rows of the cursor the call returns.
ReadOnlyExecute(t) ==
    /\ pc[t] = At("execute_readonly", "execute")
    /\ IF StartsWithSelect(frame[t].query)
       THEN frame' = [frame EXCEPT ![t].items = disk.users]
       ELSE \* CREATE INDEX IF NOT EXISTS on the schema of create_tables
            UNCHANGED frame
    /\ Goto(t, "execute_readonly", "return")
    /\ UNCHANGED <<players, disk, conn, cursor, lock, caller>>

\* `return cursor`
ReadOnlyReturn(t) ==
    /\ pc[t] = At("execute_readonly", "return")
    /\ Return(t)
    /\ UNCHANGED <<players, disk, conn, cursor, lock>>

execute_readonly(t) ==
    \/ ReadOnlyCall(t)
    \/ ReadOnlyExecute(t)
    \/ ReadOnlyReturn(t)

\* ------------------------------------------- InventoryDB.create_tables
\* Six calls of self.execute, one per CREATE statement: each takes the
\* lock, runs its statement, commits and releases the lock. `statement` is
\* the number of the statement the call is at.
CreateCall(t) ==
    /\ Ready(t, "create_tables")
    /\ frame' = [frame EXCEPT ![t] = [NoFrame EXCEPT !.statement = 1]]
    /\ Goto(t, "create_tables", "lock")
    /\ UNCHANGED <<players, disk, conn, cursor, lock, caller>>

CreateAcquire(t) ==
    /\ pc[t] = At("create_tables", "lock")
    /\ Acquire(t)
    /\ Goto(t, "create_tables", "execute")
    /\ UNCHANGED <<players, disk, conn, cursor, frame, caller>>

CreateExecute(t) ==
    /\ pc[t] = At("create_tables", "execute")
    /\ ExecuteDdl(t, CreateIfNotExists(conn.db, Schema[frame[t].statement]))
    /\ Goto(t, "create_tables", "commit")
    /\ UNCHANGED <<players, lock, frame, caller>>

\* The end of one self.execute: the next statement, or the return of
\* create_tables after the last.
CreateExit(t) ==
    /\ pc[t] = At("create_tables", "exit")
    /\ Release(t)
    /\ IF frame[t].statement < Len(Schema)
       THEN /\ frame' = [frame EXCEPT ![t].statement = @ + 1]
            /\ Goto(t, "create_tables", "lock")
            /\ UNCHANGED caller
       ELSE Return(t)
    /\ UNCHANGED <<players, disk, conn, cursor>>

create_tables(t) ==
    \/ CreateCall(t)
    \/ CreateAcquire(t)
    \/ CreateExecute(t)
    \/ WriteCommit(t, "create_tables")
    \/ CreateExit(t)

\* --------------------------- get_user_by_name / search_users_by_name
\* The characters of the names and patterns callers and handles use.
Chars(string) ==
    CASE string = "" -> <<>>
      [] string = "Steve" -> <<"S", "t", "e", "v", "e">>
      [] string = "STEVEN" -> <<"S", "T", "E", "V", "E", "N">>
      [] string = "Alex" -> <<"A", "l", "e", "x">>
      [] string = "al_x" -> <<"a", "l", "_", "x">>
      [] string = "Stella" -> <<"S", "t", "e", "l", "l", "a">>
      [] string = "eve" -> <<"e", "v", "e">>
      [] string = "EVE" -> <<"E", "V", "E">>
      [] string = "l_x" -> <<"l", "_", "x">>
      [] string = "%" -> <<"%">>
      [] string = "zz" -> <<"z", "z">>

\* SQL LOWER on one character, and on a string.
LowerChar(c) ==
    CASE c = "S" -> "s" [] c = "T" -> "t" [] c = "E" -> "e" [] c = "V" -> "v"
      [] c = "N" -> "n" [] c = "A" -> "a" [] OTHER -> c
Lower(chars) == [i \in DOMAIN chars |-> LowerChar(chars[i])]

\* SQL `text LIKE pattern`: '%' stands for any run of characters, '_' for
\* any one character, every other character for itself.
RECURSIVE Like(_, _)
Like(text, pattern) ==
    IF pattern = <<>> THEN text = <<>>
    ELSE IF Head(pattern) = "%"
         THEN Like(text, Tail(pattern)) \/ (text # <<>> /\ Like(Tail(text), pattern))
    ELSE IF Head(pattern) = "_"
         THEN text # <<>> /\ Like(Tail(text), Tail(pattern))
    ELSE text # <<>> /\ Head(text) = Head(pattern) /\ Like(Tail(text), Tail(pattern))

\* `WHERE LOWER(name) LIKE LOWER(?)` with the parameter f"%{name}%".
WhereNameLike(users, name) ==
    SelectSeq(users,
              LAMBDA r : Like(Lower(Chars(r.name)),
                              Lower(<<"%">> \o Chars(name) \o <<"%">>)))

\* `ORDER BY last_join DESC`: the rows in any order that does not put a
\* smaller last_join before a larger one.
OrderByLastJoinDesc(rows) ==
    {[i \in DOMAIN rows |-> rows[f[i]]] :
        f \in {g \in [DOMAIN rows -> DOMAIN rows] :
                  /\ \A i, j \in DOMAIN rows : i # j => g[i] # g[j]
                  /\ \A i, j \in DOMAIN rows :
                         i < j => rows[g[i]].last_join >= rows[g[j]].last_join}}

\* `LIMIT 1`
Limit1(rows) == IF rows = <<>> THEN <<>> ELSE <<rows[1]>>

\* `User(xuid=row[0], name=row[1], last_join=row[2], last_leave=row[3])`:
\* the first four columns of the row, of whichever statement it is.
UserOf(row) ==
    IF "last_join" \in DOMAIN row
    THEN [xuid |-> row.xuid, name |-> row.name,
          last_join |-> row.last_join, last_leave |-> row.last_leave]
    ELSE IF "slot_type" \in DOMAIN row
    THEN [xuid |-> row.xuid, name |-> row.name,
          last_join |-> row.slot_type, last_leave |-> row.slot]
    ELSE [xuid |-> row.xuid, name |-> row.name,
          last_join |-> row.slot, last_leave |-> row.type]

\* The patterns callers search for.
Patterns == {"", "eve", "EVE", "l_x", "%", "zz"}
FindOps == {"get_user_by_name", "search_users_by_name"}

\* `self.cursor.execute("SELECT ... WHERE LOWER(name) LIKE LOWER(?) ORDER BY
\* last_join DESC [LIMIT 1]")`: on the shared cursor, without the lock.
FindExecute(t, op) ==
    /\ Ready(t, op)
    /\ ~CursorLocked
    /\ \E name \in Patterns :
         /\ \E rows \in OrderByLastJoinDesc(WhereNameLike(conn.db.users, name)) :
              ExecuteSelect(t, IF op = "get_user_by_name" THEN Limit1(rows) ELSE rows)
         /\ frame' = [frame EXCEPT ![t] = [NoFrame EXCEPT !.name = name]]
    /\ Goto(t, op, "fetch")
    /\ UNCHANGED <<players, disk, lock, caller>>

\* `row = self.cursor.fetchone()` and the User built from it, or None;
\* `for row in self.cursor.fetchall(): users.append(User(...))`.
FindFetch(t, op) ==
    /\ pc[t] = At(op, "fetch")
    /\ ~CursorLocked
    /\ IF op = "get_user_by_name"
       THEN /\ frame' = [frame EXCEPT ![t].items =
                            IF cursor = <<>> THEN Null ELSE Some(UserOf(cursor[1]))]
            /\ cursor' = IF cursor = <<>> THEN <<>> ELSE Tail(cursor)
       ELSE /\ frame' = [frame EXCEPT ![t].items =
                            [i \in DOMAIN cursor |-> UserOf(cursor[i])]]
            /\ cursor' = <<>>
    /\ Goto(t, op, "return")
    /\ UNCHANGED <<players, disk, conn, lock, caller>>

\* The cursor is inside another thread's executemany.
FindRaises(t, op) ==
    /\ Ready(t, op) \/ pc[t] = At(op, "fetch")
    /\ CursorLocked
    /\ frame' = [frame EXCEPT ![t] = NoFrame]
    /\ Goto(t, op, "raised")
    /\ UNCHANGED <<players, disk, conn, cursor, lock, caller>>

\* `return User(...)`, `return None`, `return users`, or the exception
\* reaches the caller.
FindReturn(t, op) ==
    /\ \/ pc[t] = At(op, "return") /\ Return(t)
       \/ pc[t] = At(op, "raised") /\ Raise(t)
    /\ UNCHANGED <<players, disk, conn, cursor, lock>>

FindOp(t, op) ==
    \/ FindExecute(t, op)
    \/ FindFetch(t, op)
    \/ FindRaises(t, op)
    \/ FindReturn(t, op)

get_user_by_name(t) == FindOp(t, "get_user_by_name")
search_users_by_name(t) == FindOp(t, "search_users_by_name")

\* ------------------------------------------------------ the live handles
Sword ==
    Item("minecraft:diamond_sword", 1,
         Some(Meta(Some("Excalibur"), <<[k |-> "sharpness", v |-> 2]>>,
                   Some(<<"forged">>), TRUE, 3)),
         Some(0))
Stone == Item("minecraft:stone", 2, Null, Null)
Helmet == Item("minecraft:iron_helmet", 1, Some(Meta(Null, <<>>, Null, FALSE, 0)), Some(0))
Air == Item("minecraft:air", 0, Null, Some(0))

NoEquipment == <<Null, Null, Null, Null, Null>>
\* Numbered slots, empty except for `item` in slot `at`.
Slots(size, at, item) == [i \in 1..size |-> IF i = at + 1 THEN item ELSE Null]

\* Steve carrying a sword, wearing a helmet, with stone in his ender chest;
\* Steve with nothing but air; Alex with stone in the last slot.
SteveArmed ==
    Player("x1", "Steve", Slots(InvSize, 0, Some(Sword)),
           <<Some(Helmet), Null, Null, Null, Null>>, Slots(EnderSize, 0, Some(Stone)))
SteveEmpty ==
    Player("x1", "Steve", Slots(InvSize, 0, Some(Air)),
           <<Null, Null, Null, Null, Some(Air)>>, Slots(EnderSize, 0, Null))
Alex ==
    Player("x2", "Alex", Slots(InvSize, InvSize - 1, Some(Stone)),
           NoEquipment, Slots(EnderSize, EnderSize - 1, Null))
SmallPlayers == {SteveArmed, SteveEmpty, Alex}

\* ------------------------------------------------------- specification
\* A fresh store after InventoryDB.__init__: the tables exist and are empty.
InitStore(handles) ==
    /\ players = handles
    /\ disk = EmptyDb
    /\ conn = [db |-> EmptyDb, in_transaction |-> FALSE]
    /\ cursor = <<>>
    /\ lock = NoThread
    /\ pc = [t \in Threads |-> Idle]
    /\ frame = [t \in Threads |-> NoFrame]
    /\ caller = [t \in Threads |-> FreeCaller]

Init == InitStore(SmallPlayers)

\* Two threads saving and loading snapshots.
Next ==
    \E t \in Threads :
        \/ save_inventory(t)
        \/ get_inventory(t)
        \/ save_enderchest(t)
        \/ get_enderchest(t)

Spec == Init /\ [][Next]_vars

\* Two threads in any of the five operations that write.
NextWriters ==
    \E t \in Threads :
        \/ save_inventory(t)
        \/ save_enderchest(t)
        \/ save_user(t)
        \/ update_user_leave_time(t)
        \/ execute(t)

InitWriters == InitStore({SteveArmed})

SpecWriters == InitWriters /\ [][NextWriters]_vars

\* The steps of thread t.
Writes(t) ==
    \/ save_inventory(t)
    \/ save_enderchest(t)
    \/ save_user(t)
    \/ update_user_leave_time(t)
    \/ execute(t)

\* Fair scheduling: a thread inside a call that can run does run, and a
\* thread waiting at `with self._lock:` gets the lock if it is free again
\* and again. Callers are free never to call.
FairWriters ==
    \A t \in Threads :
        /\ WF_vars(pc[t] # Idle /\ pc[t].at # "lock" /\ Writes(t))
        /\ SF_vars(pc[t].at = "lock" /\ Writes(t))

SpecWritersFair == SpecWriters /\ FairWriters

\* ------------------------------ two threads, writes and readonly reads
NextReadOnly ==
    \E t \in Threads :
        \/ save_inventory(t)
        \/ save_user(t)
        \/ execute_readonly(t)

SpecReadOnly == InitWriters /\ [][NextReadOnly]_vars

\* -------------------------------------------- one caller, many handles
\* Every combination of the attributes of an ItemMeta and an ItemStack.
DisplayNames == {Null, Some(""), Some("Excalibur")}
EnchantMaps == {<<>>, <<[k |-> "sharpness", v |-> 2], [k |-> "unbreaking", v |-> 1]>>}
Lores == {Null, Some(<<>>), Some(<<"forged", "in fire">>)}
Metas ==
    {Meta(d, e, l, u, g) :
        d \in DisplayNames, e \in EnchantMaps, l \in Lores, u \in BOOLEAN, g \in {0, 3}}
WideItems ==
    {Item("minecraft:diamond_sword", 1, m, a) :
        m \in {Null} \cup {Some(x) : x \in Metas}, a \in {Null, Some(0), Some(1)}}
\* An item stack of a kind other than air that reports the amount 0.
Spent == Item("minecraft:stone", 0, Null, Null)
SlotContents == {Null, Some(Air), Some(Spent)} \cup {Some(i) : i \in WideItems}

\* Steve with `item` at position `at` of his inventory (the numbered slots,
\* then the equipment) and in his ender chest, and `other` in the numbered
\* slot next to it.
WidePlayer(at, item, other) ==
    Player("x1", "Steve",
           [i \in 1..InvSize |->
               IF i = at THEN item ELSE IF i = (at % InvSize) + 1 THEN other ELSE Null],
           [k \in 1..5 |-> IF InvSize + k = at THEN item ELSE Null],
           [i \in 1..EnderSize |-> IF i = (at % EnderSize) + 1 THEN item ELSE other])
WidePlayers ==
    {WidePlayer(at, item, other) :
        at \in 1..(InvSize + 5), item \in SlotContents, other \in {Null, Some(Stone)}}

\* A store that earlier saves of SteveArmed and Alex have filled.
PriorStore ==
    [users |-> <<>>,
     inventories |-> InventoryValues(SteveArmed) \o InventoryValues(Alex),
     ender_chests |-> EnderValues(SteveArmed) \o EnderValues(Alex),
     schema |-> FullSchema]

\* Texts json.loads rejects: a truncated object, a bare word, a trailing comma.
CorruptTexts ==
    {<<P("{"), S("sharpness"), P(":")>>,
     <<W("garbage")>>,
     <<P("{"), S("sharpness"), P(":"), N(2), P(","), P("}")>>}
TextColumns == {"enchants", "lore"}

\* PriorStore with one text column of one row overwritten.
CorruptStores ==
    {[PriorStore EXCEPT ![table][i][column] = text] :
        table \in {"inventories"}, i \in 1..Len(PriorStore.inventories),
        column \in TextColumns, text \in CorruptTexts}
    \cup
    {[PriorStore EXCEPT ![table][i][column] = text] :
        table \in {"ender_chests"}, i \in 1..Len(PriorStore.ender_chests),
        column \in TextColumns, text \in CorruptTexts}

\* What the one caller does: save and load, save twice and load, or load.
SaveAndLoad ==
    {<<"save_inventory", "get_inventory", "save_enderchest", "get_enderchest">>}
SaveTwice ==
    {<<"save_inventory", "save_inventory", "get_inventory">>,
     <<"save_enderchest", "save_enderchest", "get_enderchest">>}
Load == {<<"get_inventory">>, <<"get_enderchest">>}

Caller == "t1"

InitCodec ==
    /\ \/ /\ players \in {{p} : p \in WidePlayers}
          /\ disk = PriorStore
          /\ \E program \in SaveAndLoad \cup SaveTwice :
               caller = [t \in Threads |-> Scripted(IF t = Caller THEN program ELSE <<>>)]
       \/ /\ players = {SteveArmed}
          /\ disk \in CorruptStores
          /\ \E program \in Load :
               caller = [t \in Threads |-> Scripted(IF t = Caller THEN program ELSE <<>>)]
    /\ conn = [db |-> disk, in_transaction |-> FALSE]
    /\ cursor = <<>>
    /\ lock = NoThread
    /\ pc = [t \in Threads |-> Idle]
    /\ frame = [t \in Threads |-> NoFrame]

\* The calls of the one caller; no other thread runs.
NextCodec ==
    \/ save_inventory(Caller)
    \/ save_enderchest(Caller)
    \/ GetExecute(Caller, "get_inventory")
    \/ GetFetchall(Caller, "get_inventory")
    \/ GetReturn(Caller, "get_inventory")
    \/ GetExecute(Caller, "get_enderchest")
    \/ GetFetchall(Caller, "get_enderchest")
    \/ GetReturn(Caller, "get_enderchest")

SpecCodec == InitCodec /\ [][NextCodec]_vars

\* ------------------------------------------- one caller and the users
\* Steve under a new name.
SteveRenamed ==
    Player("x1", "STEVEN", Slots(InvSize, 0, Null), NoEquipment, Slots(EnderSize, 0, Null))

\* Users that joined before.
PriorUsers ==
    <<[xuid |-> "x3", name |-> "al_x", last_join |-> 2, last_leave |-> 0],
      [xuid |-> "x4", name |-> "Stella", last_join |-> 0, last_leave |-> 1]>>

InitUsers ==
    /\ players = {SteveArmed, SteveRenamed, Alex}
    /\ \E users \in {<<>>, PriorUsers} : disk = [PriorStore EXCEPT !.users = users]
    /\ conn = [db |-> disk, in_transaction |-> FALSE]
    /\ cursor = <<>>
    /\ lock = NoThread
    /\ pc = [t \in Threads |-> Idle]
    /\ frame = [t \in Threads |-> NoFrame]
    /\ caller = [t \in Threads |-> FreeCaller]

\* The calls of the one caller on the users table.
NextUsers ==
    \/ save_user(Caller)
    \/ update_user_leave_time(Caller)
    \/ FindExecute(Caller, "get_user_by_name")
    \/ FindFetch(Caller, "get_user_by_name")
    \/ FindReturn(Caller, "get_user_by_name")
    \/ FindExecute(Caller, "search_users_by_name")
    \/ FindFetch(Caller, "search_users_by_name")
    \/ FindReturn(Caller, "search_users_by_name")

SpecUsers == InitUsers /\ [][NextUsers]_vars

\* ------------------------------ two saves of one player who plays on
\* The handle of Steve in its v-th state: every slot holds v stones.
Versioned(v) ==
    Player("x1", "Steve", [i \in 1..InvSize |-> Some(Item("minecraft:stone", v, Null, Null))],
           NoEquipment, [i \in 1..EnderSize |-> Some(Item("minecraft:stone", v, Null, Null))])

\* The game changes the player's inventory and ender chest between and
\* during the calls.
LiveChange ==
    /\ \E v \in 1..(MaxVersion - 1) :
         /\ players = {Versioned(v)}
         /\ players' = {Versioned(v + 1)}
    /\ UNCHANGED <<disk, conn, cursor, lock, pc, frame, caller>>

\* Each thread makes one call of the same save, for the same player.
InitRace ==
    /\ players = {Versioned(1)}
    /\ disk = [EmptyDb EXCEPT
                 !.inventories = InventoryValues(Versioned(1)) \o InventoryValues(Alex),
                 !.ender_chests = EnderValues(Versioned(1)) \o EnderValues(Alex)]
    /\ \E op \in {"save_inventory", "save_enderchest"} :
         caller = [t \in Threads |-> Scripted(<<op>>)]
    /\ conn = [db |-> disk, in_transaction |-> FALSE]
    /\ cursor = <<>>
    /\ lock = NoThread
    /\ pc = [t \in Threads |-> Idle]
    /\ frame = [t \in Threads |-> NoFrame]

NextRace ==
    \/ LiveChange
    \/ \E t \in Threads :
         \/ save_inventory(t)
         \/ save_enderchest(t)

SpecRace == InitRace /\ [][NextRace]_vars

\* ------------------------------------------ the slot-action menu: Take
\* `is_air(item)`
is_air(item) ==
    \/ item = Null
    \/ Val(item).type \in {"air", "minecraft:air"}
    \/ Val(item).amount = 0

\* Two stacks the host puts together: equal but for the amount.
Similar(a, b) == [a EXCEPT !.amount = 0] = [b EXCEPT !.amount = 0]

\* The host's Inventory.add_item, first part: the stacks similar to `item`
\* are filled up to MaxStack, in the order of the slots; `rest` is the
\* amount still to store.
RECURSIVE FillStacks(_, _, _, _)
FillStacks(slots, j, item, rest) ==
    IF j > Len(slots) \/ rest = 0 THEN [slots |-> slots, rest |-> rest]
    ELSE IF /\ ~is_air(slots[j])
            /\ Similar(Val(slots[j]), item)
            /\ Val(slots[j]).amount < MaxStack
         THEN LET room == MaxStack - Val(slots[j]).amount
                  moved == IF rest <= room THEN rest ELSE room
              IN  FillStacks([slots EXCEPT ![j] =
                                 Some([Val(slots[j]) EXCEPT !.amount = @ + moved])],
                             j + 1, item, rest - moved)
         ELSE FillStacks(slots, j + 1, item, rest)

\* `inventory.add_item(item)` of the host: what is left after the stacks
\* goes to the first empty slot; `rest` is the amount that did not fit
\* (the dict the host returns is empty when rest = 0).
HostAddItem(slots, item) ==
    LET filled == FillStacks(slots, 1, item, item.amount)
        empty == {j \in DOMAIN slots : is_air(filled.slots[j])}
    IN  IF filled.rest = 0 \/ empty = {} THEN filled
        ELSE LET j == CHOOSE k \in empty : \A l \in empty : k <= l
             IN  [slots |-> [filled.slots EXCEPT ![j] =
                                Some([item EXCEPT !.amount = filled.rest])],
                  rest |-> 0]

\* The viewer (the operator using the menu) and the target of the menu.
Viewer == CHOOSE p \in players : p.xuid = "x2"
Target == CHOOSE p \in players : p.xuid = "x1"

\* `inv` of the menu: get_inventory(target) under the title "Inventory",
\* get_ender(target) under "Ender Chest".
Titles == {"Inventory", "Ender Chest"}
Container(player, title) ==
    IF title = "Inventory" THEN player.inventory.slots ELSE player.ender_chest.slots
Cleared(player, title, slot_idx) ==
    IF title = "Inventory"
    THEN [player EXCEPT !.inventory.slots[slot_idx + 1] = Null]
    ELSE [player EXCEPT !.ender_chest.slots[slot_idx + 1] = Null]

\* The messages of Take, without their colour codes.
CantAccess == "Can't access your inventory."
NoLongerThere == "Item no longer there."
Moved == "Item moved to your inventory."
Full == "Your inventory is full."

\* `if btn_idx == 0:` of on_pick, up to the test of item_now. The viewer's
\* handle gives its inventory or not; `inv` is the target's inventory.
TakeCall(t) ==
    /\ Ready(t, "take")
    /\ \E title \in Titles, dst \in BOOLEAN :
         \E slot_idx \in 0..(Len(Container(Target, title)) - 1) :
           LET item_now == Container(Target, title)[slot_idx + 1]
               menu == [NoFrame EXCEPT !.title = title, !.slot = slot_idx]
           IN  IF ~dst
               THEN /\ frame' = [frame EXCEPT ![t] = [menu EXCEPT !.sent = <<CantAccess>>]]
                    /\ Goto(t, "take", "return")
               ELSE IF is_air(item_now)
               THEN /\ frame' = [frame EXCEPT ![t] = [menu EXCEPT !.sent = <<NoLongerThere>>]]
                    /\ Goto(t, "take", "return")
               ELSE /\ frame' = [frame EXCEPT ![t] = [menu EXCEPT !.item = item_now]]
                    /\ Goto(t, "take", "add_item")
    /\ UNCHANGED <<players, disk, conn, cursor, lock, caller>>

\* `if add_item(dst, item_now):` The host stores what fits and returns the
\* rest, or raises; add_item is True when nothing is left.
TakeAddItem(t) ==
    /\ pc[t] = At("take", "add_item")
    /\ \E raises \in BOOLEAN :
         LET added == IF raises THEN [slots |-> Viewer.inventory.slots, rest |-> 1]
                      ELSE HostAddItem(Viewer.inventory.slots, Val(frame[t].item))
         IN  /\ players' = {Target, [Viewer EXCEPT !.inventory.slots = added.slots]}
             /\ IF added.rest = 0
                THEN Goto(t, "take", "set_item") /\ UNCHANGED frame
                ELSE /\ frame' = [frame EXCEPT ![t].sent = Append(@, Full)]
                     /\ Goto(t, "take", "return")
    /\ UNCHANGED <<disk, conn, cursor, lock, caller>>

\* `set_item_in_slot(inv, slot_idx, None)`, its result dropped, then the
\* message. The host clears the slot or raises (set_item_in_slot is False).
TakeSetItem(t) ==
    /\ pc[t] = At("take", "set_item")
    /\ \E raises \in BOOLEAN :
         players' = {Viewer,
                     IF raises THEN Target
                     ELSE Cleared(Target, frame[t].title, frame[t].slot)}
    /\ frame' = [frame EXCEPT ![t].sent = Append(@, Moved)]
    /\ Goto(t, "take", "return")
    /\ UNCHANGED <<disk, conn, cursor, lock, caller>>

\* `return self._open_container(...)`
TakeReturn(t) ==
    /\ pc[t] = At("take", "return")
    /\ Return(t)
    /\ UNCHANGED <<players, disk, conn, cursor, lock>>

Take(t) ==
    \/ TakeCall(t)
    \/ TakeAddItem(t)
    \/ TakeSetItem(t)
    \/ TakeReturn(t)

\* Steve holds a sword in the last slot and stone in the others and in his
\* ender chest. The viewer is Alex with room, with nothing but air, with
\* stacks that are full but for one stone, or with full stacks.
TakeTarget ==
    Player("x1", "Steve",
           [i \in 1..InvSize |-> IF i < InvSize THEN Some(Stone) ELSE Some(Sword)],
           NoEquipment, Slots(EnderSize, 0, Some(Stone)))
Stacks(first) ==
    Player("x2", "Alex",
           [i \in 1..InvSize |->
               Some([Stone EXCEPT !.amount = IF i = 1 THEN first ELSE MaxStack])],
           NoEquipment, Slots(EnderSize, 0, Null))
Viewers ==
    {Alex, [SteveEmpty EXCEPT !.xuid = "x2"], Stacks(MaxStack - 1), Stacks(MaxStack)}

InitTake ==
    /\ \E viewer \in Viewers : players = {TakeTarget, viewer}
    /\ disk = EmptyDb
    /\ conn = [db |-> disk, in_transaction |-> FALSE]
    /\ cursor = <<>>
    /\ lock = NoThread
    /\ pc = [t \in Threads |-> Idle]
    /\ frame = [t \in Threads |-> NoFrame]
    /\ caller = [t \in Threads |-> FreeCaller]

NextTake == Take(Caller)

SpecTake == InitTake /\ [][NextTake]_vars

\* ------------------------------- the slot-action menu: all its buttons
ThatSlotEmpty == "That slot is empty."
Copied == "A copy was added to your inventory."
NothingToRemove == "Nothing to remove."
SlotCleared == "Slot cleared."
FailedToClear == "Failed to clear that slot on this build."

\* `_slot_actions(viewer, target, inv, slot_idx, title)`: an empty slot is
\* answered with a message and the container list; otherwise the form with
\* the five buttons is sent and the call returns, on_pick pending.
SlotActions(t) ==
    /\ Ready(t, "slot_actions")
    /\ \E title \in Titles :
         \E slot_idx \in 0..(Len(Container(Target, title)) - 1) :
           LET menu == [NoFrame EXCEPT !.title = title, !.slot = slot_idx]
           IN  IF is_air(Container(Target, title)[slot_idx + 1])
               THEN /\ frame' = [frame EXCEPT ![t] = [menu EXCEPT !.sent = <<ThatSlotEmpty>>]]
                    /\ Goto(t, "slot_actions", "return")
               ELSE /\ frame' = [frame EXCEPT ![t] = menu]
                    /\ Goto(t, "slot_actions", "form")
    /\ UNCHANGED <<players, disk, conn, cursor, lock, caller>>

\* While no handler runs, the game empties a slot of the target: the item
\* is dropped, replaced by air, or used up.
TargetChanges(t) ==
    /\ pc[t] \in {Idle, At("slot_actions", "form")}
    /\ \E title \in Titles, now \in {Null, Some(Air), Some(Spent)} :
         \E j \in DOMAIN Container(Target, title) :
           /\ ~is_air(Container(Target, title)[j])
           /\ players' = {Viewer,
                           IF title = "Inventory"
                           THEN [Target EXCEPT !.inventory.slots[j] = now]
                           ELSE [Target EXCEPT !.ender_chest.slots[j] = now]}
    /\ UNCHANGED <<disk, conn, cursor, lock, pc, frame, caller>>

\* The item the slot of the menu holds now: `get_item_from_slot(inv, slot_idx)`.
ItemNow(t) == Container(Target, frame[t].title)[frame[t].slot + 1]

\* on_pick with btn_idx == 0, up to the test of item_now.
TakePick(t) ==
    /\ pc[t] = At("slot_actions", "form")
    /\ \E dst \in BOOLEAN :
         IF ~dst
         THEN /\ frame' = [frame EXCEPT ![t].sent = <<CantAccess>>]
              /\ Goto(t, "take", "return")
         ELSE IF is_air(ItemNow(t))
         THEN /\ frame' = [frame EXCEPT ![t].sent = <<NoLongerThere>>]
              /\ Goto(t, "take", "return")
         ELSE /\ frame' = [frame EXCEPT ![t].item = ItemNow(t)]
              /\ Goto(t, "take", "add_item")
    /\ UNCHANGED <<players, disk, conn, cursor, lock, caller>>

\* on_pick with btn_idx == 1, up to the test of item_now.
CopyPick(t) ==
    /\ pc[t] = At("slot_actions", "form")
    /\ \E dst \in BOOLEAN :
         IF ~dst
         THEN /\ frame' = [frame EXCEPT ![t].sent = <<CantAccess>>]
              /\ Goto(t, "copy", "return")
         ELSE IF is_air(ItemNow(t))
         THEN /\ frame' = [frame EXCEPT ![t].sent = <<NoLongerThere>>]
              /\ Goto(t, "copy", "return")
         ELSE /\ frame' = [frame EXCEPT ![t].item = ItemNow(t)]
              /\ Goto(t, "copy", "add_item")
    /\ UNCHANGED <<players, disk, conn, cursor, lock, caller>>

\* The copy is added and the slot it came from is cleared.
CopyAddItemAndClear(t) ==
    /\ pc[t] = At("copy", "add_item")
    /\ \E raises \in BOOLEAN :
         LET added == IF raises THEN [slots |-> Viewer.inventory.slots, rest |-> 1]
                      ELSE HostAddItem(Viewer.inventory.slots, Val(frame[t].item))
         IN  /\ players' = {Cleared(Target, frame[t].title, frame[t].slot),
                             [Viewer EXCEPT !.inventory.slots = added.slots]}
             /\ frame' = [frame EXCEPT ![t].sent =
                             Append(@, IF added.rest = 0 THEN Copied ELSE Full)]
    /\ Goto(t, "copy", "return")
    /\ UNCHANGED <<disk, conn, cursor, lock, caller>>

\* `if add_item(dst, item_now):` and the message of either branch.
CopyAddItem(t) ==
    /\ pc[t] = At("copy", "add_item")
    /\ \E raises \in BOOLEAN :
         LET added == IF raises THEN [slots |-> Viewer.inventory.slots, rest |-> 1]
                      ELSE HostAddItem(Viewer.inventory.slots, Val(frame[t].item))
         IN  /\ players' = {Target, [Viewer EXCEPT !.inventory.slots = added.slots]}
             /\ frame' = [frame EXCEPT ![t].sent =
                             Append(@, IF added.rest = 0 THEN Copied ELSE Full)]
    /\ Goto(t, "copy", "return")
    /\ UNCHANGED <<disk, conn, cursor, lock, caller>>

\* The slot is cleared whatever it holds.
RemovePickUntested(t) ==
    /\ pc[t] = At("slot_actions", "form")
    /\ \E raises \in BOOLEAN :
         /\ players' = {Viewer,
                         IF raises THEN Target
                         ELSE Cleared(Target, frame[t].title, frame[t].slot)}
         /\ frame' = [frame EXCEPT ![t].sent =
                         <<IF raises THEN FailedToClear ELSE SlotCleared>>]
    /\ Goto(t, "remove", "return")
    /\ UNCHANGED <<disk, conn, cursor, lock, caller>>

\* on_pick with btn_idx == 2: the slot is cleared if it holds an item and
\* the host's set_item does not raise.
RemovePick(t) ==
    /\ pc[t] = At("slot_actions", "form")
    /\ IF is_air(ItemNow(t))
       THEN /\ frame' = [frame EXCEPT ![t].sent = <<NothingToRemove>>]
            /\ UNCHANGED players
       ELSE \E raises \in BOOLEAN :
              /\ players' = {Viewer,
                              IF raises THEN Target
                              ELSE Cleared(Target, frame[t].title, frame[t].slot)}
              /\ frame' = [frame EXCEPT ![t].sent =
                              <<IF raises THEN FailedToClear ELSE SlotCleared>>]
    /\ Goto(t, "remove", "return")
    /\ UNCHANGED <<disk, conn, cursor, lock, caller>>

\* on_pick with btn_idx 3 or 4: back to the slots or to the player.
BackPick(t) ==
    /\ pc[t] = At("slot_actions", "form")
    /\ Goto(t, "back", "return")
    /\ UNCHANGED <<players, disk, conn, cursor, lock, frame, caller>>

\* The handler returns with the next form sent: `_open_container` after
\* Take, Copy, Remove and an empty slot.
MenuReturn(t) ==
    /\ pc[t].op \in {"slot_actions", "copy", "remove", "back"}
    /\ pc[t].at = "return"
    /\ Return(t)
    /\ UNCHANGED <<players, disk, conn, cursor, lock>>

NextMenu ==
    \/ SlotActions(Caller)
    \/ TargetChanges(Caller)
    \/ TakePick(Caller)
    \/ TakeAddItem(Caller)
    \/ TakeSetItem(Caller)
    \/ TakeReturn(Caller)
    \/ CopyPick(Caller)
    \/ CopyAddItem(Caller)
    \/ RemovePick(Caller)
    \/ BackPick(Caller)
    \/ MenuReturn(Caller)

SpecMenu == InitTake /\ [][NextMenu]_vars

\* ------------------------------------------------ the visual chest views
\* `range(27)`: the positions of the ender chest form.
EnderPositions == 27

\* The hotbar drawn one position early, on the last main slot.
map_slot_to_one_position(slot_idx, which) ==
    IF which = "ender" THEN Some(slot_idx)
    ELSE IF 9 <= slot_idx /\ slot_idx <= 35 THEN Some(slot_idx - 9)
    ELSE IF 0 <= slot_idx /\ slot_idx <= 8 THEN Some(26 + slot_idx)
    ELSE Null

\* `_map_slot_to_chest(slot_idx, which)`
map_slot_to_chest(slot_idx, which) ==
    IF which = "ender" THEN Some(slot_idx)
    ELSE IF 9 <= slot_idx /\ slot_idx <= 35 THEN Some(slot_idx - 9)
    ELSE IF 0 <= slot_idx /\ slot_idx <= 8 THEN Some(27 + slot_idx)
    ELSE Null

\* `chest.set_slot(position, "minecraft:air", None, item_amount=0)`
Placeholder ==
    [item_type |-> "minecraft:air", item_amount |-> 0, item_data |-> 0,
     display_name |-> "", lore |-> Null, enchants |-> Null]

\* What `_add_item_to_chest` passes to chest.set_slot for an ItemStack: the
\* lore lines, then one line per enchantment. item.item_meta and meta.lore
\* are copies the host hands out, so the lines are appended to a list of
\* the call's own.
ChestEntry(item) ==
    LET meta == item.item_meta
        display_name == IF meta # Null /\ Val(meta).display_name # Null
                        THEN Val(Val(meta).display_name) ELSE ""
        lore == IF meta # Null /\ Val(meta).lore # Null
                THEN [i \in DOMAIN Val(Val(meta).lore) |-> <<"text", Val(Val(meta).lore)[i], 0>>]
                ELSE <<>>
        enchants == IF meta # Null THEN Val(meta).enchants ELSE <<>>
        lines == lore \o [i \in DOMAIN enchants |-> <<"ench", enchants[i].k, enchants[i].v>>]
    IN  [item_type |-> item.type, item_amount |-> item.amount,
         item_data |-> IF item.data = Null THEN 0 ELSE Val(item.data),
         display_name |-> display_name,
         lore |-> IF lines = <<>> THEN Null ELSE Some(lines),
         enchants |-> IF enchants = <<>> THEN Null ELSE Some(enchants)]

\* The chest form with `entry` at `position`.
SetSlot(chest, position, entry) ==
    [q \in DOMAIN chest \cup {position} |->
        IF q = position THEN entry ELSE chest[q]]

\* The view writes what it shows back into the slot it shows.
SetSlotAndTarget(target, which, slot_idx, item) ==
    IF which = "inv"
    THEN [target EXCEPT !.inventory.slots[slot_idx + 1] = Some([item EXCEPT !.amount = 1])]
    ELSE [target EXCEPT !.ender_chest.slots[slot_idx + 1] = Some([item EXCEPT !.amount = 1])]

\* The target as the view leaves it.
AfterShown(target, which, slot_idx, item) == target

ChestUnavailable == "Chest form display is not available."
CantRead == "Can't read inventory on this build."
ReadOnlyView == "This is a read-only view. Use the list view to Take/Copy/Remove items."
OfflineEmpty == "ender chest is empty or data not found."
OfflineView == "Viewing offline player's ender chest (read-only). Use Actions view to copy items."
OfflineFailed == "Failed to load ender chest data."

\* The offline player whose data file the host keeps, and that file.
OfflineData(file) == [xuid |-> "x3", name |-> "Stella", file |-> file]
Offline == CHOOSE p \in players : p.xuid = "x3"

\* `inv` of the view: `title` holds `which`.
Shown(t) ==
    IF frame[t].title = "inv" THEN Target.inventory.slots ELSE Target.ender_chest.slots

\* `_show_chest_form(viewer, target, which)` up to the placeholders: without
\* the ChestForm module or without the container a message is sent; else
\* every position gets air, where set_slot does not raise.
ChestCall(t) ==
    /\ Ready(t, "show_chest_form")
    /\ \E which \in {"inv", "ender"}, available \in BOOLEAN, inv \in BOOLEAN, raises \in BOOLEAN :
         LET view == [NoFrame EXCEPT !.title = which]
             size == IF which = "inv" THEN Len(Target.inventory.slots)
                     ELSE Len(Target.ender_chest.slots)
             positions ==
                 IF raises THEN {}
                 ELSE IF which = "ender" THEN 0..(EnderPositions - 1)
                 ELSE {Val(map_slot_to_chest(i, which)) :
                         i \in {j \in 0..(size - 1) : map_slot_to_chest(j, which) # Null}}
         IN  IF ~available
             THEN /\ frame' = [frame EXCEPT ![t] = [view EXCEPT !.sent = <<ChestUnavailable>>]]
                  /\ Goto(t, "show_chest_form", "return")
             ELSE IF ~inv
             THEN /\ frame' = [frame EXCEPT ![t] = [view EXCEPT !.sent = <<CantRead>>]]
                  /\ Goto(t, "show_chest_form", "return")
             ELSE /\ frame' = [frame EXCEPT ![t] =
                                 [view EXCEPT !.chest = [q \in positions |-> Placeholder]]]
                  /\ Goto(t, "show_chest_form", "items")
    /\ UNCHANGED <<players, disk, conn, cursor, lock, caller>>

\* One turn of `for slot_idx in range(size):` (`range(min(size, 27))` for
\* the ender chest): an item that is not air goes to its position, unless
\* set_slot raises, which is logged. `done` is the next slot_idx.
ChestItem(t) ==
    /\ pc[t] = At("show_chest_form", "items")
    /\ LET slot_idx == frame[t].done
           size == IF frame[t].title = "ender" /\ Len(Shown(t)) > EnderPositions
                   THEN EnderPositions ELSE Len(Shown(t))
       IN  IF slot_idx >= size
           THEN /\ frame' = [frame EXCEPT ![t].sent = Append(@, ReadOnlyView)]
                /\ Goto(t, "show_chest_form", "return")
                /\ UNCHANGED players
           ELSE LET item == Shown(t)[slot_idx + 1]
                    position == map_slot_to_chest(slot_idx, frame[t].title)
                IN  IF is_air(item) \/ position = Null
                    THEN /\ frame' = [frame EXCEPT ![t].done = slot_idx + 1]
                         /\ UNCHANGED <<players, pc>>
                    ELSE \E raises \in BOOLEAN :
                           /\ frame' = [frame EXCEPT
                                  ![t].done = slot_idx + 1,
                                  ![t].chest = IF raises THEN @
                                               ELSE SetSlot(@, Val(position), ChestEntry(Val(item))),
                                  ![t].printed = IF raises
                                                 THEN Append(@, "Failed to add item to chest slot")
                                                 ELSE @]
                           /\ players' = {Viewer, Offline,
                                           AfterShown(Target, frame[t].title, slot_idx, Val(item))}
                           /\ UNCHANGED pc
    /\ UNCHANGED <<disk, conn, cursor, lock, caller>>

\* `_show_offline_enderchest_visual(viewer, player_name, player_file)`: the
\* file is read; an unreadable file and an empty or missing list end with a
\* message; else every position gets air, where set_slot does not raise.
OfflineCall(t) ==
    /\ Ready(t, "show_offline_enderchest_visual")
    /\ \E raises \in BOOLEAN :
         LET view == [NoFrame EXCEPT !.title = "offline"]
         IN  IF Offline.file = Null
             THEN /\ frame' = [frame EXCEPT ![t] =
                                 [view EXCEPT !.sent = <<OfflineFailed>>,
                                              !.printed = <<"Error reading offline player data">>]]
                  /\ Goto(t, "show_offline_enderchest_visual", "return")
             ELSE IF Val(Offline.file).EnderChestInventory = <<>>
             THEN /\ frame' = [frame EXCEPT ![t] = [view EXCEPT !.sent = <<OfflineEmpty>>]]
                  /\ Goto(t, "show_offline_enderchest_visual", "return")
             ELSE /\ frame' = [frame EXCEPT ![t] =
                                 [view EXCEPT
                                    !.values = Val(Offline.file).EnderChestInventory,
                                    !.chest = IF raises THEN <<>>
                                              ELSE [q \in 0..(EnderPositions - 1) |-> Placeholder]]]
                  /\ Goto(t, "show_offline_enderchest_visual", "items")
    /\ UNCHANGED <<players, disk, conn, cursor, lock, caller>>

\* What the offline view passes to chest.set_slot for one entry of the file.
OfflineEntry(item_data) ==
    [item_type |-> item_data.Name, item_amount |-> item_data.Count,
     item_data |-> item_data.Damage, display_name |-> item_data.tag.Name,
     lore |-> IF item_data.tag.Lore = <<>> THEN Null ELSE Some(item_data.tag.Lore),
     enchants |-> IF item_data.tag.ench = <<>> THEN Null ELSE Some(item_data.tag.ench)]

\* One turn of `for item_data in ender_items:`: an entry that is no dict or
\* whose Slot is outside 0..26 is passed over.
OfflineItem(t) ==
    /\ pc[t] = At("show_offline_enderchest_visual", "items")
    /\ LET k == frame[t].done + 1
       IN  IF k > Len(frame[t].values)
           THEN /\ frame' = [frame EXCEPT ![t].sent = Append(@, OfflineView)]
                /\ Goto(t, "show_offline_enderchest_visual", "return")
           ELSE LET item_data == frame[t].values[k]
                IN  IF item_data = Null \/ Val(item_data).Slot < 0 \/ Val(item_data).Slot > 26
                    THEN /\ frame' = [frame EXCEPT ![t].done = k]
                         /\ UNCHANGED pc
                    ELSE \E raises \in BOOLEAN :
                           /\ frame' = [frame EXCEPT
                                  ![t].done = k,
                                  ![t].chest = IF raises THEN @
                                               ELSE SetSlot(@, Val(item_data).Slot,
                                                            OfflineEntry(Val(item_data))),
                                  ![t].printed = IF raises
                                                 THEN Append(@, "Failed to set offline ender chest slot")
                                                 ELSE @]
                           /\ UNCHANGED pc
    /\ UNCHANGED <<players, disk, conn, cursor, lock, caller>>

\* The view returns: the chest was sent, or the text menu is shown again.
ChestReturn(t) ==
    /\ pc[t].op \in {"show_chest_form", "show_offline_enderchest_visual"}
    /\ pc[t].at = "return"
    /\ Return(t)
    /\ UNCHANGED <<players, disk, conn, cursor, lock>>

\* The entries of EnderChestInventory in a player's data file.
FileItem(slot, name, count) ==
    Some([Slot |-> slot, Name |-> name, Count |-> count, Damage |-> 0,
          tag |-> [Name |-> "", Lore |-> <<>>, ench |-> <<>>]])
Named ==
    Some([Slot |-> 1, Name |-> "minecraft:diamond_sword", Count |-> 1, Damage |-> 3,
          tag |-> [Name |-> "Excalibur", Lore |-> <<"forged">>,
                   ench |-> <<[k |-> "Enchantment 9", v |-> 2]>>]])

\* The data file of the offline player Stella: unreadable, without ender
\* chest items, or with entries of every kind.
OfflineFiles ==
    {Null, Some([EnderChestInventory |-> <<>>]),
     Some([EnderChestInventory |-> <<FileItem(0, "minecraft:stone", 2), Named>>]),
     Some([EnderChestInventory |->
              <<Null, FileItem(0 - 1, "minecraft:stone", 1), FileItem(27, "minecraft:stone", 1),
                FileItem(26, "minecraft:dirt", 5)>>])}

\* The targets of the views: Steve of the menus, or Steve with nothing.
InitChest ==
    /\ \E target \in {TakeTarget, SteveEmpty}, file \in OfflineFiles :
         players = {target, Alex, OfflineData(file)}
    /\ disk = PriorStore
    /\ conn = [db |-> disk, in_transaction |-> FALSE]
    /\ cursor = <<>>
    /\ lock = NoThread
    /\ pc = [t \in Threads |-> Idle]
    /\ frame = [t \in Threads |-> NoFrame]
    /\ caller = [t \in Threads |-> FreeCaller]

NextChest ==
    \/ ChestCall(Caller)
    \/ ChestItem(Caller)
    \/ OfflineCall(Caller)
    \/ OfflineItem(Caller)
    \/ ChestReturn(Caller)

SpecChest == InitChest /\ [][NextChest]_vars

\* ---------------------------------- the command and the online players
\* `plugin.server.online_players`: the handles of the players online, in
\* the order the server lists them.
XuidOrder == <<"x1", "x2", "x4">>
RECURSIVE OnlineFrom(_)
OnlineFrom(k) ==
    IF k > Len(XuidOrder) THEN <<>>
    ELSE LET here == {p \in players : p.xuid = XuidOrder[k]}
         IN  (IF here = {} THEN <<>> ELSE <<CHOOSE p \in here : TRUE>>)
             \o OnlineFrom(k + 1)
online_players == OnlineFrom(1)

\* `names = [player_name(pl) for pl in opls]`
Names(opls) == [i \in DOMAIN opls |-> opls[i].name]

\* A sender of a command: the console, or a player with the permissions
\* the server grants it.
Console == [player |-> Null, permissions |-> {}]
Senders ==
    {Console} \cup
    {[player |-> Some(p), permissions |-> perms] :
        p \in players, perms \in {{}, {"inventory_manager.use"}, {"other.permission"}}}

PlayersOnly == "This command can only be used by players!"
NoPermission == "You don't have permission to use this command!"
NoPlayersOnline == "No players online."
WentOffline == "Player went offline."

\* The command opens the menu for every player.
OnCommandAnyPlayer(t) ==
    /\ Ready(t, "on_command")
    /\ \E name \in {"manageinv", "help"}, sender \in Senders :
         LET call == [NoFrame EXCEPT !.query = name, !.player = Some(sender)]
         IN  IF name # "manageinv"
             THEN /\ frame' = [frame EXCEPT ![t] = [call EXCEPT !.result = Some(FALSE)]]
                  /\ Goto(t, "on_command", "return")
             ELSE IF sender.player = Null
             THEN /\ frame' = [frame EXCEPT ![t] =
                                 [call EXCEPT !.result = Some(TRUE), !.sent = <<PlayersOnly>>]]
                  /\ Goto(t, "on_command", "return")
             ELSE /\ frame' = [frame EXCEPT ![t] = [call EXCEPT !.result = Some(TRUE)]]
                  /\ Goto(t, "open", "form")
    /\ UNCHANGED <<players, disk, conn, cursor, lock, caller>>

\* `on_command(sender, command, args)`: with the main menu sent (`open`)
\* the call has returned True and the form waits for its submission.
on_command(t) ==
    /\ Ready(t, "on_command")
    /\ \E name \in {"manageinv", "help"}, sender \in Senders :
         LET call == [NoFrame EXCEPT !.query = name, !.player = Some(sender)]
         IN  IF name # "manageinv"
             THEN /\ frame' = [frame EXCEPT ![t] = [call EXCEPT !.result = Some(FALSE)]]
                  /\ Goto(t, "on_command", "return")
             ELSE IF sender.player = Null
             THEN /\ frame' = [frame EXCEPT ![t] =
                                 [call EXCEPT !.result = Some(TRUE), !.sent = <<PlayersOnly>>]]
                  /\ Goto(t, "on_command", "return")
             ELSE IF "inventory_manager.use" \notin sender.permissions
             THEN /\ frame' = [frame EXCEPT ![t] =
                                 [call EXCEPT !.result = Some(TRUE), !.sent = <<NoPermission>>]]
                  /\ Goto(t, "on_command", "return")
             ELSE /\ frame' = [frame EXCEPT ![t] = [call EXCEPT !.result = Some(TRUE)]]
                  /\ Goto(t, "open", "form")
    /\ UNCHANGED <<players, disk, conn, cursor, lock, caller>>

\* `return True` / `return False` without a form.
CommandReturn(t) ==
    /\ pc[t] = At("on_command", "return")
    /\ Return(t)
    /\ UNCHANGED <<players, disk, conn, cursor, lock>>

\* `_pick_online_player(p)` called with the messages sent so far: without
\* names the main menu is sent, else the list of names.
PickOnlinePlayer(t, sent) ==
    LET names == Names(online_players)
    IN  IF names = <<>>
        THEN /\ frame' = [frame EXCEPT ![t] =
                            [NoFrame EXCEPT !.sent = Append(sent, NoPlayersOnline)]]
             /\ Goto(t, "open", "form")
        ELSE /\ frame' = [frame EXCEPT ![t] =
                            [NoFrame EXCEPT !.sent = sent, !.values = names]]
             /\ Goto(t, "pick_online_player", "form")

\* on_submit of the main menu: 0 is the online players; every other
\* answer closes the menu or leaves for the offline players.
MainSubmit(t) ==
    /\ pc[t] = At("open", "form")
    /\ \E idx \in {Null, Some(0), Some(1), Some(2)} :
         IF idx = Some(0) THEN PickOnlinePlayer(t, <<>>) /\ UNCHANGED caller
         ELSE Return(t)
    /\ UNCHANGED <<players, disk, conn, cursor, lock>>

\* The target is the player at the chosen index of the list of now.
ResolveByIndex(names, idx) ==
    IF idx + 1 \in DOMAIN online_players THEN Some(online_players[idx + 1]) ELSE Null

\* `for live in online_players(self): if player_name(live) == names[idx]:
\* target = live; break`
Resolve(names, idx) ==
    LET live == SelectSeq(online_players, LAMBDA p : p.name = names[idx + 1])
    IN  IF live = <<>> THEN Null ELSE Some(live[1])

\* on_submit of the list of online players.
PickSubmit(t) ==
    /\ pc[t] = At("pick_online_player", "form")
    /\ \E idx \in {Null} \cup {Some(i) : i \in (0 - 1)..(Len(frame[t].values) + 1)} :
         IF idx = Null \/ Val(idx) < 0 \/ Val(idx) >= Len(frame[t].values)
         THEN /\ frame' = [frame EXCEPT ![t] = [NoFrame EXCEPT !.idx = idx]]
              /\ Goto(t, "open", "form")
         ELSE LET target == Resolve(frame[t].values, Val(idx))
              IN  IF target = Null
                  THEN PickOnlinePlayer(t, <<WentOffline>>)
                  ELSE /\ frame' = [frame EXCEPT ![t] =
                                      [NoFrame EXCEPT !.idx = idx, !.player = target,
                                                      !.name = frame[t].values[Val(idx) + 1]]]
                       /\ Goto(t, "inspect_online_player", "form")
    /\ UNCHANGED <<players, disk, conn, cursor, lock, caller>>

\* `pick` of the inspection menu: the containers of the target (the menus
\* above), or back to the list.
InspectSubmit(t) ==
    /\ pc[t] = At("inspect_online_player", "form")
    /\ \E idx \in {0, 2} :
         IF idx = 2 THEN PickOnlinePlayer(t, <<>>) /\ UNCHANGED caller
         ELSE Return(t)
    /\ UNCHANGED <<players, disk, conn, cursor, lock>>

\* The players that are ever online: Steve comes back as he left or with
\* nothing.
Stella == Player("x4", "Stella", Slots(InvSize, 0, Null), NoEquipment, Slots(EnderSize, 0, Null))
Everyone == {SteveArmed, SteveEmpty, Alex, Stella}

\* Between two handlers a player joins or leaves. Alex, who uses the menu,
\* stays.
JoinOrLeave(t) ==
    /\ pc[t].at # "return"
    /\ \/ \E p \in players \ {Alex} : players' = players \ {p}
       \/ \E p \in Everyone :
            /\ \A q \in players : q.xuid # p.xuid
            /\ players' = players \cup {p}
    /\ UNCHANGED <<disk, conn, cursor, lock, pc, frame, caller>>

InitMenus ==
    /\ players = {Alex, SteveArmed}
    /\ disk = EmptyDb
    /\ conn = [db |-> disk, in_transaction |-> FALSE]
    /\ cursor = <<>>
    /\ lock = NoThread
    /\ pc = [t \in Threads |-> Idle]
    /\ frame = [t \in Threads |-> NoFrame]
    /\ caller = [t \in Threads |-> FreeCaller]

NextMenus ==
    \/ on_command(Caller)
    \/ CommandReturn(Caller)
    \/ MainSubmit(Caller)
    \/ PickSubmit(Caller)
    \/ InspectSubmit(Caller)
    \/ JoinOrLeave(Caller)

SpecMenus == InitMenus /\ [][NextMenus]_vars

\* --------------------------------------- _map_slot_to_chest on its own
\* The slot indices a caller passes.
SlotIndices == (0 - SlotMargin)..(35 + SlotMargin)

\* The call is about to run with its arguments in `slot` and `title`.
InitSlots ==
    /\ players = {Alex}
    /\ disk = EmptyDb
    /\ conn = [db |-> disk, in_transaction |-> FALSE]
    /\ cursor = <<>>
    /\ lock = NoThread
    /\ \E slot_idx \in SlotIndices, which \in {"inv", "ender"} :
         /\ pc = [t \in Threads |->
                    IF t = Caller THEN At("map_slot_to_chest", "call") ELSE Idle]
         /\ frame = [t \in Threads |->
                       IF t = Caller THEN [NoFrame EXCEPT !.slot = slot_idx, !.title = which]
                       ELSE NoFrame]
    /\ caller = [t \in Threads |-> Scripted(<<"map_slot_to_chest">>)]

\* `return ...` of _map_slot_to_chest: `result` holds the value.
MapSlotToChest(t) ==
    /\ pc[t] = At("map_slot_to_chest", "call")
    /\ frame' = [frame EXCEPT ![t].result =
                    Some(map_slot_to_chest(frame[t].slot, frame[t].title))]
    /\ Goto(t, "map_slot_to_chest", "return")
    /\ UNCHANGED <<players, disk, conn, cursor, lock, caller>>

NextSlots == MapSlotToChest(Caller)

SpecSlots == InitSlots /\ [][NextSlots]_vars

\* ---------------------------- one caller saving into a populated store
\* Steve and Alex have rows in all three tables; the caller saves either's
\* inventory or ender chest, again and again, also after a failed save.
InitFrame ==
    /\ players = {SteveEmpty, Alex}
    /\ disk = [PriorStore EXCEPT !.users = PriorUsers \o
                  <<[xuid |-> "x1", name |-> "Steve", last_join |-> 1, last_leave |-> 0]>>]
    /\ conn = [db |-> disk, in_transaction |-> FALSE]
    /\ cursor = <<>>
    /\ lock = NoThread
    /\ pc = [t \in Threads |-> Idle]
    /\ frame = [t \in Threads |-> NoFrame]
    /\ caller = [t \in Threads |-> FreeCaller]

NextFrame ==
    \/ save_inventory(Caller)
    \/ save_enderchest(Caller)

SpecFrame == InitFrame /\ [][NextFrame]_vars

\* ------------------------------- create_tables on files of any age
\* A file as an earlier version or an interrupted start left it: any of the
\* tables, with rows or without, and an index only where its table is.
PartialStores ==
    {[users |-> IF "users" \in schema THEN users ELSE <<>>,
      inventories |-> IF "inventories" \in schema THEN inventories ELSE <<>>,
      ender_chests |-> IF "ender_chests" \in schema THEN ender_chests ELSE <<>>,
      schema |-> schema] :
        schema \in {objects \in SUBSET FullSchema :
                       /\ "idx_users_name" \in objects => "users" \in objects
                       /\ "idx_inventories_xuid" \in objects => "inventories" \in objects
                       /\ "idx_ender_chests_xuid" \in objects => "ender_chests" \in objects},
        users \in {<<>>, PriorUsers},
        inventories \in {<<>>, PriorStore.inventories},
        ender_chests \in {<<>>, PriorStore.ender_chests}}

\* InventoryDB is constructed twice on the same file.
InitSchema ==
    /\ players = {SteveArmed}
    /\ disk \in PartialStores
    /\ caller = [t \in Threads |->
                   Scripted(IF t = Caller THEN <<"create_tables", "create_tables">>
                            ELSE <<>>)]
    /\ conn = [db |-> disk, in_transaction |-> FALSE]
    /\ cursor = <<>>
    /\ lock = NoThread
    /\ pc = [t \in Threads |-> Idle]
    /\ frame = [t \in Threads |-> NoFrame]

NextSchema == create_tables(Caller)

SpecSchema == InitSchema /\ [][NextSchema]_vars

\* ------------------------------------- one caller loading damaged rows
\* PriorStore with one INTEGER column of one row holding text.
UnconvertibleStores ==
    {[PriorStore EXCEPT ![table][i][column] = Unconvertible] :
        table \in {"inventories"}, i \in 1..Len(PriorStore.inventories),
        column \in IntColumns}
    \cup
    {[PriorStore EXCEPT ![table][i][column] = Unconvertible] :
        table \in {"ender_chests"}, i \in 1..Len(PriorStore.ender_chests),
        column \in IntColumns}

InitRows ==
    /\ players = {SteveArmed}
    /\ disk \in UnconvertibleStores
    /\ \E program \in Load :
         caller = [t \in Threads |-> Scripted(IF t = Caller THEN program ELSE <<>>)]
    /\ conn = [db |-> disk, in_transaction |-> FALSE]
    /\ cursor = <<>>
    /\ lock = NoThread
    /\ pc = [t \in Threads |-> Idle]
    /\ frame = [t \in Threads |-> NoFrame]

NextRows ==
    \/ GetExecute(Caller, "get_inventory")
    \/ GetFetchall(Caller, "get_inventory")
    \/ GetReturn(Caller, "get_inventory")
    \/ GetExecute(Caller, "get_enderchest")
    \/ GetFetchall(Caller, "get_enderchest")
    \/ GetReturn(Caller, "get_enderchest")

SpecRows == InitRows /\ [][NextRows]_vars

\* ------------------------------------- one caller loading rows with NULL
\* The columns the row loop tests for None.
NullableColumns == {"slot", "amount", "damage", "display_name", "unbreakable", "data"}

\* PriorStore with one of these columns of one row NULL.
NullStores ==
    {[PriorStore EXCEPT ![table][i][column] = Null] :
        table \in {"inventories"}, i \in 1..Len(PriorStore.inventories),
        column \in NullableColumns}
    \cup
    {[PriorStore EXCEPT ![table][i][column] = Null] :
        table \in {"ender_chests"}, i \in 1..Len(PriorStore.ender_chests),
        column \in NullableColumns}

InitNulls ==
    /\ players = {SteveArmed}
    /\ disk \in NullStores
    /\ \E program \in Load :
         caller = [t \in Threads |-> Scripted(IF t = Caller THEN program ELSE <<>>)]
    /\ conn = [db |-> disk, in_transaction |-> FALSE]
    /\ cursor = <<>>
    /\ lock = NoThread
    /\ pc = [t \in Threads |-> Idle]
    /\ frame = [t \in Threads |-> NoFrame]

SpecNulls == InitNulls /\ [][NextRows]_vars

\* =================================================================== claims
SaveOps == {"save_inventory", "save_enderchest"}
GetOps == {"get_inventory", "get_enderchest"}
WriteOps == SaveOps \cup {"save_user", "update_user_leave_time", "execute"}
Tables == {"inventories", "ender_chests"}
SaveOpOf(table) == IF table = "inventories" THEN "save_inventory" ELSE "save_enderchest"

\* The rows `db` holds for xuid in `table`.
Stored(db, table, xuid) == SelectWhereXuid(db[table], xuid)

\* The occupied positions of the live container a save reads: those holding
\* an item that is not air.
Occupied(slots) == {i \in DOMAIN slots : slots[i] # Null /\ slots[i][1].type # "minecraft:air"}
LiveCount(op, player) ==
    IF op = "save_inventory"
    THEN Cardinality(Occupied(player.inventory.slots))
         + Cardinality(Occupied(player.inventory.equipment))
    ELSE Cardinality(Occupied(player.ender_chest.slots))

\* C1: when save_inventory (save_enderchest) has committed and is about to
\* return, the table holds for the player's xuid exactly the rows this call
\* built, as many as the live container has occupied positions, whatever
\* the DELETE found.
C1_ReplaceAll ==
    \A t \in Threads :
        pc[t].op \in SaveOps /\ pc[t].at = "exit" =>
            LET stored == Stored(disk, TableOf(pc[t].op), frame[t].xuid)
            IN  /\ stored = frame[t].values
                /\ Len(stored) = LiveCount(pc[t].op, Val(frame[t].player))

\* A save that found M > 0 rows and replaced them by N # M rows.
C1_Witness ==
    \E t \in Threads :
        /\ pc[t].op \in SaveOps /\ pc[t].at = "exit"
        /\ frame[t].deleted > 0
        /\ frame[t].deleted # Len(frame[t].values)

\* C2: a save whose bulk insert raises leaves the stored rows of the xuid as
\* they were, so the committed rows of an xuid are at all times the complete
\* rows of one save (or none): never the prefix a failed save had inserted.
C2_FailedSaveLeavesPriorSnapshot ==
    \A xuid \in Xuids :
        /\ Stored(disk, "inventories", xuid) \in
               {<<>>} \cup {InventoryValues(p) : p \in {q \in players : q.xuid = xuid}}
        /\ Stored(disk, "ender_chests", xuid) \in
               {<<>>} \cup {EnderValues(p) : p \in {q \in players : q.xuid = xuid}}

\* Thread w is inside a save of xuid into table, past its DELETE and before
\* the end of its commit.
InsideSave(w, table, xuid) ==
    /\ pc[w].op = SaveOpOf(table)
    /\ pc[w].at \in {"executemany", "commit"}
    /\ frame[w].xuid = xuid

\* C3: the SELECT of a get_inventory (get_enderchest) for xuid that runs
\* while another thread is inside a save for xuid reads the complete prior
\* snapshot (the committed rows) or the complete new one (the save's rows).
C3_ReaderSeesCompleteSnapshot ==
    [][\A t \in Threads, w \in Threads :
          /\ pc[t] = Idle
          /\ pc'[t].op \in GetOps /\ pc'[t].at = "fetchall"
          /\ InsideSave(w, TableOf(pc'[t].op), frame'[t].xuid)
          => cursor' \in {Stored(disk, TableOf(pc'[t].op), frame'[t].xuid),
                          frame[w].values}]_vars

\* Thread t is between the first statement of a write operation and the end
\* of its commit.
InWrite(t) ==
    pc[t].op \in WriteOps /\ pc[t].at \in {"delete", "executemany", "execute", "commit"}

\* C4: a thread between the first statement and the commit of a write
\* operation holds the lock, so there is at most one such thread.
C4_WritersSerialized ==
    /\ \A t \in Threads : InWrite(t) => lock = t
    /\ Cardinality({t \in Threads : InWrite(t)}) <= 1

\* One thread about to commit while the other waits for the lock.
C4_Witness ==
    \E t, w \in Threads :
        /\ pc[t].op \in WriteOps /\ pc[t].at = "commit"
        /\ pc[w].op \in SaveOps /\ pc[w].at = "lock"

\* C5: the reads run on a handle of their own: a step of get_inventory or
\* get_enderchest leaves the write connection and its cursor as they were
\* (and takes no lock).
C5_ReadsOffTheWriteHandle ==
    [][\A t \in Threads :
          pc[t].op \in GetOps \/ pc'[t].op \in GetOps =>
              UNCHANGED <<conn, cursor, lock>>]_vars

\* No two entries of the sequence of keys are equal.
NoDuplicate(keys) ==
    \A i, j \in DOMAIN keys : i # j => keys[i] # keys[j]
InventoryKey(row) == <<row.xuid, row.slot_type, row.slot>>
EnderKey(row) == <<row.xuid, row.slot>>

\* C9: neither the committed tables nor the connection's view of them ever
\* hold two rows for one slot of one player.
C9_SlotUniqueness ==
    \A db \in {disk, conn.db} :
        /\ NoDuplicate([i \in DOMAIN db.inventories |-> InventoryKey(db.inventories[i])])
        /\ NoDuplicate([i \in DOMAIN db.ender_chests |-> EnderKey(db.ender_chests[i])])

\* A second save of two rows over the two rows of the first.
C9_Witness ==
    \E t \in Threads :
        /\ pc[t] = At("save_inventory", "exit")
        /\ frame[t].deleted >= 2
        /\ Len(Stored(disk, "inventories", frame[t].xuid)) >= 2

\* ------------------------------------------------- the one-caller claims
\* The record of a live item at a position: an unset display name is the
\* empty string, unset enchantments the empty mapping, unset lore the
\* empty list.
LiveRecord(slot_type, slot, item) ==
    LET meta == item.item_meta
    IN  [slot_type |-> slot_type, slot |-> slot,
         type |-> item.type, amount |-> item.amount,
         damage |-> IF meta = Null THEN 0 ELSE meta[1].damage,
         display_name |-> IF meta = Null THEN ""
                          ELSE IF meta[1].display_name = Null THEN ""
                          ELSE meta[1].display_name[1],
         enchants |-> Dict(IF meta = Null THEN <<>> ELSE meta[1].enchants),
         lore |-> List(IF meta = Null THEN <<>>
                       ELSE IF meta[1].lore = Null THEN <<>>
                       ELSE meta[1].lore[1]),
         unbreakable |-> IF meta = Null THEN FALSE ELSE meta[1].is_unbreakable,
         data |-> item.data]

\* The records of the non-empty positions of the container `table` stores.
\* Positions differ, so the records are pairwise different.
LiveRecords(table, player) ==
    IF table = "inventories"
    THEN {LiveRecord("slot", i - 1, player.inventory.slots[i][1]) :
             i \in Occupied(player.inventory.slots)}
         \cup {LiveRecord(EquipmentNames[k], 0, player.inventory.equipment[k][1]) :
                  k \in Occupied(player.inventory.equipment)}
    ELSE {LiveRecord("slot", i - 1, player.ender_chest.slots[i][1]) :
             i \in Occupied(player.ender_chest.slots)}

\* The ten fields of a returned record; an ender chest record is of kind
\* "slot".
Fields(item) ==
    [slot_type |-> IF "slot_type" \in DOMAIN item THEN item.slot_type ELSE "slot",
     slot |-> item.slot, type |-> item.type, amount |-> item.amount,
     damage |-> item.damage, display_name |-> item.display_name,
     enchants |-> item.enchants, lore |-> item.lore,
     unbreakable |-> item.unbreakable, data |-> item.data]

\* Thread t has a result to return from the get of `table`, called right
\* after the save of `table` returned.
LoadedAfterSave(t, table) ==
    LET c == caller[t]
    IN  /\ pc[t].op \in GetOps /\ pc[t].at = "return"
        /\ TableOf(pc[t].op) = table
        /\ IF c.next < 2 THEN FALSE
           ELSE ~c.raised /\ c.program[c.next - 1] = SaveOpOf(table)

\* C6: a get called right after a save of the same player returns as many
\* records as the live container has non-empty positions, and their ten
\* fields are exactly the records of these positions: the same multiset.
C6_RoundTrip ==
    \A t \in Threads : \A table \in Tables : \A p \in players :
        LoadedAfterSave(t, table) /\ frame[t].xuid = p.xuid =>
            /\ Len(frame[t].items) = Cardinality(LiveRecords(table, p))
            /\ {Fields(frame[t].items[i]) : i \in DOMAIN frame[t].items}
                   = LiveRecords(table, p)

\* A round trip of two records: one without enchantments, lore and aux tag,
\* one with enchantments and the aux tag 0.
C6_Witness ==
    \E t \in Threads : \E p \in players :
        /\ LoadedAfterSave(t, "inventories") /\ frame[t].xuid = p.xuid
        /\ \E i, j \in DOMAIN frame[t].items :
             /\ frame[t].items[i].enchants = Dict(<<>>)
             /\ frame[t].items[i].lore = List(<<>>)
             /\ frame[t].items[i].data = Null
             /\ frame[t].items[j].enchants # Dict(<<>>)
             /\ frame[t].items[j].data = Some(0)

\* Thread t is in the second of two saves of `table` in a row.
SecondSave(t, table) ==
    LET c == caller[t]
    IN  /\ pc[t].op = SaveOpOf(table)
        /\ IF c.next < 2 THEN FALSE
           ELSE ~c.raised /\ c.program[c.next - 1] = SaveOpOf(table)

\* C7: the commit of the second of two saves in a row leaves the rows of
\* the player as the first save left them, and with them what a get
\* decodes.
C7_IdempotentOverwrite ==
    [][\A t \in Threads : \A table \in Tables :
          SecondSave(t, table) /\ pc[t].at = "commit" /\ pc'[t].at = "exit" =>
              LET before == Stored(disk, table, frame[t].xuid)
                  after == Stored(disk', table, frame[t].xuid)
              IN  /\ after = before
                  /\ DecodeRows(pc[t].op, after) = DecodeRows(pc[t].op, before)]_vars

\* The second save has committed two or more rows over those of the first.
C7_Witness ==
    \E t \in Threads : \E table \in Tables :
        /\ SecondSave(t, table) /\ pc[t].at = "exit"
        /\ frame[t].deleted >= 2
        /\ Len(frame[t].values) >= 2

\* C8: no row of inventories or ender_chests, committed or pending, has the
\* item kind air; a save of a container whose positions are all empty or
\* air leaves no row for the player, and the get after it returns the empty
\* list.
C8_EmptyNeverStored ==
    /\ \A db \in {disk, conn.db} : \A table \in Tables :
           \A i \in DOMAIN db[table] : db[table][i].type # "minecraft:air"
    /\ \A t \in Threads : \A table \in Tables : \A p \in players :
           LiveRecords(table, p) = {} =>
               /\ pc[t] = At(SaveOpOf(table), "exit") /\ frame[t].xuid = p.xuid =>
                      Stored(disk, table, p.xuid) = <<>>
               /\ LoadedAfterSave(t, table) /\ frame[t].xuid = p.xuid =>
                      /\ Stored(disk, table, p.xuid) = <<>>
                      /\ frame[t].items = <<>>

\* The get after the save of an inventory that holds nothing but air in an
\* equipment position, saved over the rows of an earlier snapshot.
C8_Witness ==
    \E t \in Threads : \E p \in players :
        /\ LoadedAfterSave(t, "inventories") /\ frame[t].xuid = p.xuid
        /\ LiveRecords("inventories", p) = {}
        /\ \E k \in DOMAIN p.inventory.equipment :
               p.inventory.equipment[k] = Some(Air)
        /\ Stored(PriorStore, "inventories", p.xuid) # <<>>

\* The records of the containers PriorStore was saved from, in row order.
PriorRecords(table, xuid) ==
    IF table = "inventories"
    THEN IF xuid = "x1"
         THEN <<LiveRecord("slot", 0, Sword), LiveRecord("helmet", 0, Helmet)>>
         ELSE <<LiveRecord("slot", InvSize - 1, Stone)>>
    ELSE IF xuid = "x1" THEN <<LiveRecord("slot", 0, Stone)>> ELSE <<>>

\* The record of a row that differs from the clean row in a text column.
Defaulted(record, row, clean) ==
    [record EXCEPT !.enchants = IF row.enchants # clean.enchants THEN Dict(<<>>) ELSE @,
                   !.lore = IF row.lore # clean.lore THEN List(<<>>) ELSE @]

\* C10: over a store in which one row has enchantment or lore text that
\* json.loads rejects, a get does not raise and returns one record per row
\* of the player: the row with the rejected text with the empty mapping
\* (the empty list) and its other fields as stored, every other row as it
\* was saved.
C10_CorruptRowResilience ==
    \A t \in Threads :
        caller[t].program \in Load =>
            /\ ~caller[t].raised
            /\ pc[t].at # "raised"
            /\ pc[t].at = "return" =>
                   LET table == TableOf(pc[t].op)
                       rows == Stored(disk, table, frame[t].xuid)
                       clean == Stored(PriorStore, table, frame[t].xuid)
                       records == PriorRecords(table, frame[t].xuid)
                   IN  /\ Len(frame[t].items) = Len(rows)
                       /\ \A i \in DOMAIN rows :
                              Fields(frame[t].items[i])
                                  = Defaulted(records[i], rows[i], clean[i])

\* A get returns two records, the first from a row whose enchantment text
\* is rejected and whose clean text holds an enchantment.
C10_Witness ==
    \E t \in Threads :
        /\ caller[t].program \in Load
        /\ pc[t] = At("get_inventory", "return")
        /\ Len(frame[t].items) = 2
        /\ LET rows == Stored(disk, "inventories", frame[t].xuid)
           IN  /\ rows[1].enchants \in CorruptTexts
               /\ frame[t].items[1].enchants = Dict(<<>>)
               /\ frame[t].items[1].lore # List(<<>>)

\* ------------------------------------------------ the load report claims
\* The printed line names the column.
NamesField(line, column) == line.about = column \/ line.e = column

\* C11: when a get returns over a row of the player whose enchants or lore
\* text json.loads rejects, a line the call printed carries the player's
\* xuid and names that column.
C11_DecodeFailureReported ==
    \A t \in Threads :
        caller[t].program \in Load /\ pc[t].at = "return" =>
            LET rows == Stored(disk, TableOf(pc[t].op), frame[t].xuid)
            IN  \A i \in DOMAIN rows : \A column \in TextColumns :
                    rows[i][column] \in CorruptTexts =>
                        \E k \in DOMAIN frame[t].printed :
                            /\ frame[t].printed[k].xuid = frame[t].xuid
                            /\ NamesField(frame[t].printed[k], column)

\* The rows of the player, among `rows`, that hold text in an INTEGER column
\* where the clean row holds a number.
Damaged(rows, clean) ==
    {i \in DOMAIN rows : \E column \in IntColumns : rows[i][column] # clean[i][column]}

\* C12: over a store in which the conversion of one row raises, a get does
\* not raise, prints a line with the player's xuid, and returns exactly one
\* record for each of the player's other rows, as it was saved.
C12_OtherRowsKept ==
    \A t \in Threads :
        caller[t].program \in Load =>
            /\ ~caller[t].raised
            /\ pc[t].at # "raised"
            /\ pc[t].at = "return" =>
                   LET table == TableOf(pc[t].op)
                       rows == Stored(disk, table, frame[t].xuid)
                       clean == Stored(PriorStore, table, frame[t].xuid)
                       records == PriorRecords(table, frame[t].xuid)
                       bad == Damaged(rows, clean)
                       items == frame[t].items
                   IN  /\ Len(items) = Len(rows) - Cardinality(bad)
                       /\ \A i \in DOMAIN rows \ bad :
                              Cardinality({j \in DOMAIN items :
                                              Fields(items[j]) = records[i]}) = 1
                       /\ bad # {} =>
                              \E k \in DOMAIN frame[t].printed :
                                  frame[t].printed[k].xuid = frame[t].xuid

\* A get of the inventory has dropped the sword row, whose slot column holds
\* text, printed the line, and returned the helmet.
C12_Witness ==
    \E t \in Threads :
        /\ caller[t].program \in Load
        /\ pc[t] = At("get_inventory", "return")
        /\ Stored(disk, "inventories", frame[t].xuid)[1].slot = Unconvertible
        /\ Len(frame[t].printed) = 1
        /\ Len(frame[t].items) = 1
        /\ frame[t].items[1].slot_type = "helmet"

\* ------------------------------------------------------ the users claims
\* `sub` occurs in `text` as a run of neighbouring characters.
Contains(text, sub) ==
    \E i \in 0..(Len(text) - Len(sub)) : SubSeq(text, i + 1, i + Len(sub)) = sub

\* The stored name has the lowercase pattern as a substring of its
\* lowercase form.
IsMatch(name, pattern) == Contains(Lower(Chars(name)), Lower(Chars(pattern)))

\* The rows of `users` whose name matches the pattern by that rule.
Matching(users, pattern) == {i \in DOMAIN users : IsMatch(users[i].name, pattern)}

\* C13: the rows a lookup's SELECT leaves on the cursor are rows whose
\* lowercase name contains the lowercase pattern; search_users_by_name
\* selects every such row, get_user_by_name one of them if there is one.
C13_NameMatchingRule ==
    \A t \in Threads :
        pc[t].op \in FindOps /\ pc[t].at = "fetch" =>
            LET users == conn.db.users
                wanted == {users[i] : i \in Matching(users, frame[t].name)}
                selected == {cursor[k] : k \in DOMAIN cursor}
            IN  /\ selected \subseteq wanted
                /\ selected = {} <=> wanted = {}
                /\ pc[t].op = "search_users_by_name" => selected = wanted

\* C14: get_user_by_name returns None when no stored name matches the
\* pattern, and otherwise one user whose name matches and whose last_join
\* no matching row exceeds; the call does not raise.
C14_BestMatch ==
    \A t \in Threads :
        /\ pc[t].op = "get_user_by_name" => pc[t].at # "raised"
        /\ pc[t] = At("get_user_by_name", "return") =>
               LET users == conn.db.users
                   matching == Matching(users, frame[t].name)
                   result == frame[t].items
               IN  IF matching = {} THEN result = Null
                   ELSE /\ result # Null
                        /\ \E i \in matching :
                               /\ result[1] = users[i]
                               /\ \A j \in matching :
                                      users[j].last_join <= users[i].last_join

\* C15: search_users_by_name returns each stored user whose name matches
\* the pattern once, no other user, never a smaller last_join before a
\* larger one, and the empty list when no name matches.
C15_SearchAll ==
    \A t \in Threads :
        pc[t] = At("search_users_by_name", "return") =>
            LET users == conn.db.users
                matching == Matching(users, frame[t].name)
                result == frame[t].items
            IN  /\ Len(result) = Cardinality(matching)
                /\ {result[k] : k \in DOMAIN result} = {users[i] : i \in matching}
                /\ \A k, l \in DOMAIN result :
                       k < l => result[k].last_join >= result[l].last_join

\* C16: when save_user has executed its statement, and when it has
\* committed, the player's xuid has exactly one row, with the handle's name,
\* last_join the join time of the call and last_leave 0, whatever row the
\* xuid had before.
C16_RejoinReplacesRow ==
    \A t \in Threads :
        pc[t].op = "save_user" =>
            LET row == [xuid |-> frame[t].xuid, name |-> frame[t].player[1].name,
                        last_join |-> frame[t].time, last_leave |-> 0]
            IN  /\ pc[t].at \in {"commit", "exit"} =>
                       Stored(conn.db, "users", frame[t].xuid) = <<row>>
                /\ pc[t].at = "exit" => Stored(disk, "users", frame[t].xuid) = <<row>>

\* A rejoin under a new name about to be committed over a row that has a
\* leave time.
C16_Witness ==
    \E t \in Threads :
        /\ pc[t] = At("save_user", "commit")
        /\ LET old == Stored(disk, "users", frame[t].xuid)
           IN  /\ Len(old) = 1
               /\ old[1].last_leave >= 1
               /\ old[1].name # frame[t].player[1].name

OnlyLeaveChanged(old, new, xuid) ==
    /\ new.inventories = old.inventories
    /\ new.ender_chests = old.ender_chests
    /\ Len(new.users) = Len(old.users)
    /\ \A i \in DOMAIN old.users :
           /\ new.users[i].xuid = old.users[i].xuid
           /\ new.users[i].name = old.users[i].name
           /\ new.users[i].last_join = old.users[i].last_join
           /\ old.users[i].xuid # xuid => new.users[i] = old.users[i]

Known(users) == {users[i].xuid : i \in DOMAIN users}

\* C19: neither the committed users table nor the connection's view of it
\* ever has two rows of one xuid, and no step takes away the row of an xuid
\* from either.
C19_UsersKeyedNeverDeleted ==
    [][\A db \in {[old |-> disk.users, new |-> disk'.users],
                  [old |-> conn.db.users, new |-> conn'.db.users]} :
          /\ NoDuplicate([i \in DOMAIN db.old |-> db.old[i].xuid])
          /\ NoDuplicate([i \in DOMAIN db.new |-> db.new[i].xuid])
          /\ Known(db.old) \subseteq Known(db.new)]_vars

\* A second save_user of an xuid has replaced its row in the connection's
\* view and is about to commit.
C19_Witness ==
    \E t \in Threads :
        /\ pc[t] = At("save_user", "commit")
        /\ Stored(disk, "users", frame[t].xuid) # <<>>
        /\ Stored(conn.db, "users", frame[t].xuid) # <<>>
        /\ Stored(disk, "users", frame[t].xuid)[1].last_leave >= 1

\* The kinds of the equipment positions, in the order of the handle.
EquipmentKinds == <<"helmet", "chestplate", "leggings", "boots", "offhand">>

\* C20: when save_inventory has committed, the player's rows are: for each
\* non-empty equipment position one row of that position's kind with slot
\* 0, for each non-empty numbered slot i one row of kind "slot" with slot
\* i, and no other row.
C20_EquipmentEncoding ==
    \A t \in Threads :
        pc[t] = At("save_inventory", "exit") =>
            LET inventory == frame[t].player[1].inventory
                rows == Stored(disk, "inventories", frame[t].xuid)
                count(kind, slot) ==
                    Cardinality({j \in DOMAIN rows :
                                    rows[j].slot_type = kind /\ rows[j].slot = <<slot>>})
            IN  /\ \A k \in DOMAIN EquipmentKinds :
                       count(EquipmentKinds[k], 0) =
                           IF k \in Occupied(inventory.equipment) THEN 1 ELSE 0
                /\ \A i \in DOMAIN inventory.slots :
                       count("slot", i - 1) =
                           IF i \in Occupied(inventory.slots) THEN 1 ELSE 0
                /\ Len(rows) = Cardinality(Occupied(inventory.equipment))
                               + Cardinality(Occupied(inventory.slots))

\* The save of a player whose only item is a helmet has committed its one
\* row over the two rows of an earlier snapshot.
C20_Witness ==
    \E t \in Threads :
        /\ pc[t] = At("save_inventory", "exit")
        /\ Occupied(frame[t].player[1].inventory.slots) = {}
        /\ Occupied(frame[t].player[1].inventory.equipment) = {1}
        /\ frame[t].deleted = 2
        /\ LET rows == Stored(disk, "inventories", frame[t].xuid)
           IN  Len(rows) = 1 /\ rows[1].slot_type = "helmet" /\ rows[1].slot = <<0>>

\* ---------------------------------------------------- the default claims
\* The record of a clean row in which the columns that are NULL in `row`
\* take the documented defaults.
WithDefaults(record, row) ==
    [record EXCEPT !.slot = IF row.slot = Null THEN 0 ELSE @,
                   !.amount = IF row.amount = Null THEN 1 ELSE @,
                   !.damage = IF row.damage = Null THEN 0 ELSE @,
                   !.display_name = IF row.display_name = Null THEN "" ELSE @,
                   !.unbreakable = IF row.unbreakable = Null THEN FALSE ELSE @,
                   !.data = IF row.data = Null THEN Null ELSE @]

\* C21: a get over a store in which a column of a row is NULL returns one
\* record per row of the player, with slot 0, count 1, damage 0, display
\* name "", unbreakable false or aux tag null in place of the NULL, and
\* every other value as stored.
C21_DecodeDefaults ==
    \A t \in Threads :
        caller[t].program \in Load /\ pc[t].at = "return" =>
            LET table == TableOf(pc[t].op)
                rows == Stored(disk, table, frame[t].xuid)
                records == PriorRecords(table, frame[t].xuid)
            IN  /\ Len(frame[t].items) = Len(rows)
                /\ \A i \in DOMAIN rows :
                       Fields(frame[t].items[i]) = WithDefaults(records[i], rows[i])

\* A get has returned the sword row, saved with aux tag 0 and stored with a
\* NULL aux tag, with the aux tag null.
C21_Witness ==
    \E t \in Threads :
        /\ caller[t].program \in Load
        /\ pc[t] = At("get_inventory", "return")
        /\ Len(frame[t].items) = 2
        /\ Stored(disk, "inventories", frame[t].xuid)[1].data = Null
        /\ PriorRecords("inventories", frame[t].xuid)[1].data = <<0>>
        /\ frame[t].items[1].data = Null

\* C22: every row of inventories and ender_chests, committed or pending,
\* has a count of one or more and a damage of zero or more.
C22_PositiveCount ==
    \A db \in {disk, conn.db} : \A table \in Tables :
        \A i \in DOMAIN db[table] :
            LET row == db[table][i]
            IN  /\ row.amount # Null /\ row.amount[1] >= 1
                /\ row.damage # Null /\ row.damage[1] >= 0

\* C23: create_tables never changes a row of a table that exists, only
\* adds to the schema, leaves a complete store exactly as it is, and
\* returns with the complete schema, so a second run changes nothing.
C23_CreateTablesIdempotent ==
    [][/\ \A table \in {"users", "inventories", "ender_chests"} :
            /\ disk'[table] = disk[table]
            /\ conn'.db[table] = conn.db[table]
       /\ disk.schema \subseteq disk'.schema
       /\ disk.schema = FullSchema => disk' = disk
       /\ (pc[Caller] # Idle /\ pc'[Caller] = Idle) => disk'.schema = FullSchema
      ]_vars

\* The second run is at the end of its last statement on a file that had
\* rows and lacked a table before the first run.
C23_Witness ==
    /\ pc[Caller] = At("create_tables", "exit")
    /\ frame[Caller].statement = Len(Schema)
    /\ caller[Caller].next = 2
    /\ disk.inventories # <<>>
    /\ disk.users # <<>>
    /\ disk.ender_chests = <<>>
    /\ disk.schema = FullSchema

C25_ReadOnlyBypassesLock ==
    /\ [](\A t \in Threads :
            /\ pc[t] = Idle => ENABLED ReadOnlyCall(t)
            /\ pc[t] = At("execute_readonly", "execute") => ENABLED ReadOnlyExecute(t)
            /\ pc[t] = At("execute_readonly", "return") => ENABLED ReadOnlyReturn(t))
    /\ [][\A t \in Threads :
            (pc'[t] # pc[t] /\ "execute_readonly" \in {pc[t].op, pc'[t].op}) =>
                /\ UNCHANGED <<lock, conn, cursor, disk>>
                /\ (pc'[t].at = "return" /\ StartsWithSelect(frame[t].query)) =>
                        frame'[t].items = disk.users
       ]_vars

\* A readonly SELECT has its rows while the other thread holds the lock
\* inside a save with its transaction open.
C25_Witness ==
    \E t, u \in Threads :
        /\ pc[t] = At("execute_readonly", "return")
        /\ frame[t].items # <<>>
        /\ lock = u
        /\ pc[u].at = "executemany"
        /\ conn.in_transaction
        /\ conn.db # disk

\* The xuids with a row in `table` of old or new.
Owners(old, new, table) ==
    {old[table][i].xuid : i \in DOMAIN old[table]}
    \cup {new[table][i].xuid : i \in DOMAIN new[table]}

\* From old to new only the rows of xuid in the table of op have changed.
SaveFrame(old, new, op, xuid) ==
    /\ new.users = old.users
    /\ \A table \in {"inventories", "ender_chests"} \ {TableOf(op)} :
           new[table] = old[table]
    /\ \A other \in Owners(old, new, TableOf(op)) \ {xuid} :
           Stored(new, TableOf(op), other) = Stored(old, TableOf(op), other)

\* C26: every step of save_inventory(X) or save_enderchest(X) leaves, in the
\* committed store and in the connection's view, the users table, the other
\* item table and the rows of every other xuid as they were; the rows of
\* ender_chests are rows of numbered slots.
C26_SaveFrame ==
    [][\A t \in Threads :
          pc[t].op \in SaveOps =>
             /\ SaveFrame(disk, disk', pc[t].op, frame[t].xuid)
             /\ SaveFrame(conn.db, conn'.db, pc[t].op, frame[t].xuid)
             /\ \A i \in DOMAIN conn'.db.ender_chests :
                    /\ "slot_type" \notin DOMAIN conn'.db.ender_chests[i]
                    /\ Val(conn'.db.ender_chests[i].slot) \in 0..(EnderSize - 1)
      ]_vars

\* The table the callers of the two saves write.
RaceTable == TableOf(caller["t1"].program[1])

\* The rows a save builds from the handle in its v-th state.
ValuesOf(table, v) ==
    IF table = "inventories" THEN InventoryValues(Versioned(v))
    ELSE EnderValues(Versioned(v))

\* Both calls have returned.
BothComplete ==
    \A t \in Threads : caller[t].next = 2 /\ ~caller[t].raised

\* C27: a save that has committed has stored exactly the rows it built, and
\* when both saves have returned the rows of x1 are the rows built from one
\* state of the handle: no union and no mixture of the two calls' rows.
C27_OneCallsRows ==
    /\ \A t \in Threads :
          pc[t].at = "exit" => Stored(disk, RaceTable, "x1") = frame[t].values
    /\ BothComplete =>
          \E v \in 1..MaxVersion : Stored(disk, RaceTable, "x1") = ValuesOf(RaceTable, v)

\* Both saves have returned, having built their rows from different states
\* of the handle, neither the state that was stored before.
C27_Witness ==
    /\ BothComplete
    /\ Stored(disk, "inventories", "x1") = ValuesOf("inventories", 2)
    /\ players = {Versioned(3)}

\* The state of the handle the stored rows of x1 were built from.
VersionOf(db) == Val(Stored(db, RaceTable, "x1")[1].amount)

\* C28: no commit of a save replaces the stored snapshot of x1 by one built
\* from an earlier state of the handle.
C28_NewerSnapshotKept ==
    [][(Stored(disk, RaceTable, "x1") # <<>> /\ Stored(disk', RaceTable, "x1") # <<>>)
         => VersionOf(disk') >= VersionOf(disk)]_vars

\* C29: between the SELECT of a get_inventory or get_enderchest and its
\* fetchall no step of another thread changes the rows left to fetch, and
\* the rows it fetches are rows of its own table for its own xuid.
C29_OwnResultSet ==
    [][\A t \in Threads :
          (pc[t].op \in GetOps /\ pc[t].at = "fetchall") =>
             /\ pc'[t] = pc[t] => cursor' = cursor
             /\ pc'[t].at = "return" =>
                    \A i \in DOMAIN cursor :
                        /\ IsRowOf(pc[t].op, cursor[i])
                        /\ cursor[i].xuid = frame[t].xuid
      ]_vars

\* The number of items of the kind of `item` in the numbered slots.
RECURSIVE CountFrom(_, _, _)
CountFrom(slots, j, item) ==
    IF j > Len(slots) THEN 0
    ELSE (IF slots[j] # Null /\ Similar(Val(slots[j]), item)
          THEN Val(slots[j]).amount ELSE 0)
         + CountFrom(slots, j + 1, item)
Count(player, item) == CountFrom(player.inventory.slots, 1, item)

\* C30: in a Take, the viewer gains the whole stack when the add is
\* reported done and nothing when it is reported failed; the target's slot
\* is empty after the step that clears it and unchanged by every other
\* step; the message that the item was moved comes only with the slot
\* empty.
C30_TakeMovesOrLeaves ==
    [][LET t == Caller
           item == Val(frame[t].item)
           slot == frame[t].slot + 1
           title == frame'[t].title
       IN  pc[t].op = "take" =>
             /\ pc[t].at = "add_item" =>
                   /\ Target' = Target
                   /\ Count(Viewer', item) =
                         Count(Viewer, item) + (IF pc'[t].at = "set_item" THEN item.amount ELSE 0)
             /\ pc[t].at = "set_item" =>
                   /\ Viewer' = Viewer
                   /\ Container(Target', title)[slot] = Null
             /\ (pc'[t].at = "return" /\ Moved \in {frame'[t].sent[i] : i \in DOMAIN frame'[t].sent})
                   => Container(Target', title)[slot] = Null
      ]_vars

C32_ActsOnContentAtSubmit ==
    [][(/\ pc[Caller] = At("slot_actions", "form")
        /\ pc'[Caller].op \in {"take", "copy", "remove"}
        /\ is_air(ItemNow(Caller)))
          => /\ players' = players
             /\ pc'[Caller].at = "return"
             /\ frame'[Caller].sent \in
                   {<<CantAccess>>, <<NoLongerThere>>, <<NothingToRemove>>}
      ]_vars

\* Remove was submitted on a slot whose item was used up after the form was
\* shown.
C32_Witness ==
    /\ pc[Caller] = At("remove", "return")
    /\ frame[Caller].sent = <<NothingToRemove>>
    /\ ItemNow(Caller) = Some(Spent)

\* C33: no step of _show_chest_form or _show_offline_enderchest_visual
\* changes a player, the offline player's data file or the store; the only
\* things that change are the chest form, the messages and the log of the
\* call.
C33_ChestViewsReadOnly ==
    [][(\E op \in {"show_chest_form", "show_offline_enderchest_visual"} :
           op \in {pc[Caller].op, pc'[Caller].op})
          => /\ players' = players
             /\ disk' = disk
             /\ conn' = conn
      ]_vars

\* A view of the inventory has put an item with lore and an enchantment on
\* the form, with no set_slot failing.
C33_Witness ==
    /\ pc[Caller] = At("show_chest_form", "return")
    /\ \E q \in DOMAIN frame[Caller].chest :
          /\ frame[Caller].chest[q].lore # Null
          /\ Len(Val(frame[Caller].chest[q].lore)) = 2
    /\ frame[Caller].printed = <<>>
    /\ frame[Caller].sent = <<ReadOnlyView>>

\* C34: a command sends the main menu exactly when it is manageinv from a
\* player with inventory_manager.use; manageinv from anyone else gets one
\* error message, no form and True; another command gets no message, no
\* form and False.
C34_PermissionGate ==
    [][(pc[Caller] = Idle /\ pc'[Caller] # Idle) =>
          LET call == frame'[Caller]
              sender == Val(call.player)
              allowed == /\ call.query = "manageinv"
                         /\ sender.player # Null
                         /\ "inventory_manager.use" \in sender.permissions
          IN  /\ allowed <=> pc'[Caller] = At("open", "form")
              /\ ~allowed => pc'[Caller] = At("on_command", "return")
              /\ call.result = Some(call.query = "manageinv")
              /\ Len(call.sent) = (IF call.query = "manageinv" /\ ~allowed THEN 1 ELSE 0)
      ]_vars

\* manageinv from a player who holds another permission only was refused.
C34_Witness ==
    /\ pc[Caller] = At("on_command", "return")
    /\ frame[Caller].query = "manageinv"
    /\ Val(frame[Caller].player).player # Null
    /\ Val(frame[Caller].player).permissions = {"other.permission"}
    /\ frame[Caller].sent = <<NoPermission>>
    /\ frame[Caller].result = Some(TRUE)

\* C35: a submission of the list of online players enters the inspection
\* menu only with a player online now whose name is the chosen button; with
\* that name not online the viewer is told and gets the list of now; with
\* no index or one outside the names the main menu is sent.
C35_ResolvedAtSubmit ==
    [][(pc[Caller] = At("pick_online_player", "form") /\ players' = players
        /\ frame'[Caller] # frame[Caller]) =>
          LET names == frame[Caller].values
              after == frame'[Caller]
              online == {p \in players : TRUE}
          IN  /\ pc'[Caller] = At("inspect_online_player", "form") =>
                    /\ after.idx # Null /\ Val(after.idx) + 1 \in DOMAIN names
                    /\ Val(after.player) \in online
                    /\ Val(after.player).name = names[Val(after.idx) + 1]
              /\ pc'[Caller] = At("pick_online_player", "form") =>
                    /\ after.sent = <<WentOffline>>
                    /\ after.values = Names(online_players)
                    /\ \E i \in DOMAIN names : \A p \in online : p.name # names[i]
              /\ pc'[Caller] = At("open", "form") =>
                    \/ after.idx = Null
                    \/ Val(after.idx) + 1 \notin DOMAIN names
              /\ pc'[Caller].at = "form"
      ]_vars

\* The inspection menu was entered with the second name of the list that
\* was shown, for a player who is first in the list of now.
C35_Witness ==
    /\ pc[Caller] = At("inspect_online_player", "form")
    /\ frame[Caller].idx = Some(1)
    /\ frame[Caller].name = "Alex"
    /\ Val(frame[Caller].player) = Alex
    /\ online_players[1] = Alex
    /\ Len(online_players) = 2

\* C36: for the inventory the value is slot - 9 for 9..35, 27 + slot for
\* 0..8 and None outside 0..35; it lies in 0..35, every position 0..35 is
\* the value of some slot, and no other slot has the same value; for the
\* ender chest the value is the slot index.
C36_SlotMapping ==
    \A t \in Threads :
        pc[t] = At("map_slot_to_chest", "return") =>
            LET slot == frame[t].slot
                value == Val(frame[t].result)
            IN  IF frame[t].title = "ender" THEN value = Some(slot)
                ELSE /\ slot \in 9..35 => value = Some(slot - 9) /\ Val(value) \in 0..26
                     /\ slot \in 0..8 => value = Some(27 + slot) /\ Val(value) \in 27..35
                     /\ slot \notin 0..35 <=> value = Null
                     /\ \A other \in SlotIndices \ {slot} :
                           value # Null => map_slot_to_chest(other, "inv") # value
                     /\ \A position \in 0..35 :
                           \E from \in 0..35 : map_slot_to_chest(from, "inv") = Some(position)

\* The last main slot was mapped to the last position of the upper rows.
C36_Witness ==
    /\ pc[Caller] = At("map_slot_to_chest", "return")
    /\ frame[Caller].title = "inv"
    /\ frame[Caller].slot = 35
    /\ frame[Caller].result = Some(Some(26))

====
